---- MODULE Spec2Model ----
(***************************************************************************)
(* PDFTextExtractor.py: extract test names from a source and a target PDF, *)
(* match them by name (strict, then loose), force the manually listed      *)
(* names, and write the kept target pages to a new document.               *)
(*                                                                         *)
(* A character is its Unicode code point and a string is a sequence of     *)
(* characters.  The character tables are those of CPython 3.11 (Unicode   *)
(* 14.0.0).                                                                *)
(***************************************************************************)
EXTENDS Integers, Sequences, FiniteSets, TLC

(* ---------------------------- bounds ----------------------------------- *)
MaxSrcPages == 2
MaxTgtPages == 2

(* ---------------------------- characters ------------------------------- *)
LineFeed == 10
CarriageReturn == 13
Space == 32
Hyphen == 45
Dot == 46
Underscore == 95
SoftHyphen == 173
EnDash == 8211
EmDash == 8212
CapitalSigma == 931
FinalSigma == 962
SmallSigma == 963

\* the characters str.strip(), str.split() and \s treat as whitespace
Whitespace ==
    (9..13) \cup (28..32) \cup {133, 160, 5760} \cup (8192..8202)
    \cup {8232, 8233, 8239, 8287, 12288}

\* the characters of ":;,-"
TrailPunct == {58, 59, 44, 45}

in_ranges(c, ranges) == \E k \in 1..Len(ranges) : ranges[k][1] <= c /\ c <= ranges[k][2]

\* \d: the decimal digits, as <<first, last>> ranges
DigitRanges ==
    << <<48, 57>>, <<1632, 1641>>, <<1776, 1785>>, <<1984, 1993>>, <<2406, 2415>>,
       <<2534, 2543>>, <<2662, 2671>>, <<2790, 2799>>, <<2918, 2927>>, <<3046, 3055>>,
       <<3174, 3183>>, <<3302, 3311>>, <<3430, 3439>>, <<3558, 3567>>, <<3664, 3673>>,
       <<3792, 3801>>, <<3872, 3881>>, <<4160, 4169>>, <<4240, 4249>>, <<6112, 6121>>,
       <<6160, 6169>>, <<6470, 6479>>, <<6608, 6617>>, <<6784, 6793>>, <<6800, 6809>>,
       <<6992, 7001>>, <<7088, 7097>>, <<7232, 7241>>, <<7248, 7257>>, <<42528, 42537>>,
       <<43216, 43225>>, <<43264, 43273>>, <<43472, 43481>>, <<43504, 43513>>,
       <<43600, 43609>>, <<44016, 44025>>, <<65296, 65305>>, <<66720, 66729>>,
       <<68912, 68921>>, <<69734, 69743>>, <<69872, 69881>>, <<69942, 69951>>,
       <<70096, 70105>>, <<70384, 70393>>, <<70736, 70745>>, <<70864, 70873>>,
       <<71248, 71257>>, <<71360, 71369>>, <<71472, 71481>>, <<71904, 71913>>,
       <<72016, 72025>>, <<72784, 72793>>, <<73040, 73049>>, <<73120, 73129>>,
       <<92768, 92777>>, <<92864, 92873>>, <<93008, 93017>>, <<120782, 120831>>,
       <<123200, 123209>>, <<123632, 123641>>, <<125264, 125273>>, <<130032, 130041>> >>

\* \w: the alphanumeric characters and the underscore, as <<first, last>> ranges
WordRanges ==
    << <<48, 57>>, <<65, 90>>, <<95, 95>>, <<97, 122>>, <<170, 170>>, <<178, 179>>,
       <<181, 181>>, <<185, 186>>, <<188, 190>>, <<192, 214>>, <<216, 246>>,
       <<248, 705>>, <<710, 721>>, <<736, 740>>, <<748, 748>>, <<750, 750>>,
       <<880, 884>>, <<886, 887>>, <<890, 893>>, <<895, 895>>, <<902, 902>>,
       <<904, 906>>, <<908, 908>>, <<910, 929>>, <<931, 1013>>, <<1015, 1153>>,
       <<1162, 1327>>, <<1329, 1366>>, <<1369, 1369>>, <<1376, 1416>>, <<1488, 1514>>,
       <<1519, 1522>>, <<1568, 1610>>, <<1632, 1641>>, <<1646, 1647>>, <<1649, 1747>>,
       <<1749, 1749>>, <<1765, 1766>>, <<1774, 1788>>, <<1791, 1791>>, <<1808, 1808>>,
       <<1810, 1839>>, <<1869, 1957>>, <<1969, 1969>>, <<1984, 2026>>, <<2036, 2037>>,
       <<2042, 2042>>, <<2048, 2069>>, <<2074, 2074>>, <<2084, 2084>>, <<2088, 2088>>,
       <<2112, 2136>>, <<2144, 2154>>, <<2160, 2183>>, <<2185, 2190>>, <<2208, 2249>>,
       <<2308, 2361>>, <<2365, 2365>>, <<2384, 2384>>, <<2392, 2401>>, <<2406, 2415>>,
       <<2417, 2432>>, <<2437, 2444>>, <<2447, 2448>>, <<2451, 2472>>, <<2474, 2480>>,
       <<2482, 2482>>, <<2486, 2489>>, <<2493, 2493>>, <<2510, 2510>>, <<2524, 2525>>,
       <<2527, 2529>>, <<2534, 2545>>, <<2548, 2553>>, <<2556, 2556>>, <<2565, 2570>>,
       <<2575, 2576>>, <<2579, 2600>>, <<2602, 2608>>, <<2610, 2611>>, <<2613, 2614>>,
       <<2616, 2617>>, <<2649, 2652>>, <<2654, 2654>>, <<2662, 2671>>, <<2674, 2676>>,
       <<2693, 2701>>, <<2703, 2705>>, <<2707, 2728>>, <<2730, 2736>>, <<2738, 2739>>,
       <<2741, 2745>>, <<2749, 2749>>, <<2768, 2768>>, <<2784, 2785>>, <<2790, 2799>>,
       <<2809, 2809>>, <<2821, 2828>>, <<2831, 2832>>, <<2835, 2856>>, <<2858, 2864>>,
       <<2866, 2867>>, <<2869, 2873>>, <<2877, 2877>>, <<2908, 2909>>, <<2911, 2913>>,
       <<2918, 2927>>, <<2929, 2935>>, <<2947, 2947>>, <<2949, 2954>>, <<2958, 2960>>,
       <<2962, 2965>>, <<2969, 2970>>, <<2972, 2972>>, <<2974, 2975>>, <<2979, 2980>>,
       <<2984, 2986>>, <<2990, 3001>>, <<3024, 3024>>, <<3046, 3058>>, <<3077, 3084>>,
       <<3086, 3088>>, <<3090, 3112>>, <<3114, 3129>>, <<3133, 3133>>, <<3160, 3162>>,
       <<3165, 3165>>, <<3168, 3169>>, <<3174, 3183>>, <<3192, 3198>>, <<3200, 3200>>,
       <<3205, 3212>>, <<3214, 3216>>, <<3218, 3240>>, <<3242, 3251>>, <<3253, 3257>>,
       <<3261, 3261>>, <<3293, 3294>>, <<3296, 3297>>, <<3302, 3311>>, <<3313, 3314>>,
       <<3332, 3340>>, <<3342, 3344>>, <<3346, 3386>>, <<3389, 3389>>, <<3406, 3406>>,
       <<3412, 3414>>, <<3416, 3425>>, <<3430, 3448>>, <<3450, 3455>>, <<3461, 3478>>,
       <<3482, 3505>>, <<3507, 3515>>, <<3517, 3517>>, <<3520, 3526>>, <<3558, 3567>>,
       <<3585, 3632>>, <<3634, 3635>>, <<3648, 3654>>, <<3664, 3673>>, <<3713, 3714>>,
       <<3716, 3716>>, <<3718, 3722>>, <<3724, 3747>>, <<3749, 3749>>, <<3751, 3760>>,
       <<3762, 3763>>, <<3773, 3773>>, <<3776, 3780>>, <<3782, 3782>>, <<3792, 3801>>,
       <<3804, 3807>>, <<3840, 3840>>, <<3872, 3891>>, <<3904, 3911>>, <<3913, 3948>>,
       <<3976, 3980>>, <<4096, 4138>>, <<4159, 4169>>, <<4176, 4181>>, <<4186, 4189>>,
       <<4193, 4193>>, <<4197, 4198>>, <<4206, 4208>>, <<4213, 4225>>, <<4238, 4238>>,
       <<4240, 4249>>, <<4256, 4293>>, <<4295, 4295>>, <<4301, 4301>>, <<4304, 4346>>,
       <<4348, 4680>>, <<4682, 4685>>, <<4688, 4694>>, <<4696, 4696>>, <<4698, 4701>>,
       <<4704, 4744>>, <<4746, 4749>>, <<4752, 4784>>, <<4786, 4789>>, <<4792, 4798>>,
       <<4800, 4800>>, <<4802, 4805>>, <<4808, 4822>>, <<4824, 4880>>, <<4882, 4885>>,
       <<4888, 4954>>, <<4969, 4988>>, <<4992, 5007>>, <<5024, 5109>>, <<5112, 5117>>,
       <<5121, 5740>>, <<5743, 5759>>, <<5761, 5786>>, <<5792, 5866>>, <<5870, 5880>>,
       <<5888, 5905>>, <<5919, 5937>>, <<5952, 5969>>, <<5984, 5996>>, <<5998, 6000>>,
       <<6016, 6067>>, <<6103, 6103>>, <<6108, 6108>>, <<6112, 6121>>, <<6128, 6137>>,
       <<6160, 6169>>, <<6176, 6264>>, <<6272, 6276>>, <<6279, 6312>>, <<6314, 6314>>,
       <<6320, 6389>>, <<6400, 6430>>, <<6470, 6509>>, <<6512, 6516>>, <<6528, 6571>>,
       <<6576, 6601>>, <<6608, 6618>>, <<6656, 6678>>, <<6688, 6740>>, <<6784, 6793>>,
       <<6800, 6809>>, <<6823, 6823>>, <<6917, 6963>>, <<6981, 6988>>, <<6992, 7001>>,
       <<7043, 7072>>, <<7086, 7141>>, <<7168, 7203>>, <<7232, 7241>>, <<7245, 7293>>,
       <<7296, 7304>>, <<7312, 7354>>, <<7357, 7359>>, <<7401, 7404>>, <<7406, 7411>>,
       <<7413, 7414>>, <<7418, 7418>>, <<7424, 7615>>, <<7680, 7957>>, <<7960, 7965>>,
       <<7968, 8005>>, <<8008, 8013>>, <<8016, 8023>>, <<8025, 8025>>, <<8027, 8027>>,
       <<8029, 8029>>, <<8031, 8061>>, <<8064, 8116>>, <<8118, 8124>>, <<8126, 8126>>,
       <<8130, 8132>>, <<8134, 8140>>, <<8144, 8147>>, <<8150, 8155>>, <<8160, 8172>>,
       <<8178, 8180>>, <<8182, 8188>>, <<8304, 8305>>, <<8308, 8313>>, <<8319, 8329>>,
       <<8336, 8348>>, <<8450, 8450>>, <<8455, 8455>>, <<8458, 8467>>, <<8469, 8469>>,
       <<8473, 8477>>, <<8484, 8484>>, <<8486, 8486>>, <<8488, 8488>>, <<8490, 8493>>,
       <<8495, 8505>>, <<8508, 8511>>, <<8517, 8521>>, <<8526, 8526>>, <<8528, 8585>>,
       <<9312, 9371>>, <<9450, 9471>>, <<10102, 10131>>, <<11264, 11492>>,
       <<11499, 11502>>, <<11506, 11507>>, <<11517, 11517>>, <<11520, 11557>>,
       <<11559, 11559>>, <<11565, 11565>>, <<11568, 11623>>, <<11631, 11631>>,
       <<11648, 11670>>, <<11680, 11686>>, <<11688, 11694>>, <<11696, 11702>>,
       <<11704, 11710>>, <<11712, 11718>>, <<11720, 11726>>, <<11728, 11734>>,
       <<11736, 11742>>, <<11823, 11823>>, <<12293, 12295>>, <<12321, 12329>>,
       <<12337, 12341>>, <<12344, 12348>>, <<12353, 12438>>, <<12445, 12447>>,
       <<12449, 12538>>, <<12540, 12543>>, <<12549, 12591>>, <<12593, 12686>>,
       <<12690, 12693>>, <<12704, 12735>>, <<12784, 12799>>, <<12832, 12841>>,
       <<12872, 12879>>, <<12881, 12895>>, <<12928, 12937>>, <<12977, 12991>>,
       <<13312, 19903>>, <<19968, 42124>>, <<42192, 42237>>, <<42240, 42508>>,
       <<42512, 42539>>, <<42560, 42606>>, <<42623, 42653>>, <<42656, 42735>>,
       <<42775, 42783>>, <<42786, 42888>>, <<42891, 42954>>, <<42960, 42961>>,
       <<42963, 42963>>, <<42965, 42969>>, <<42994, 43009>>, <<43011, 43013>>,
       <<43015, 43018>>, <<43020, 43042>>, <<43056, 43061>>, <<43072, 43123>>,
       <<43138, 43187>>, <<43216, 43225>>, <<43250, 43255>>, <<43259, 43259>>,
       <<43261, 43262>>, <<43264, 43301>>, <<43312, 43334>>, <<43360, 43388>>,
       <<43396, 43442>>, <<43471, 43481>>, <<43488, 43492>>, <<43494, 43518>>,
       <<43520, 43560>>, <<43584, 43586>>, <<43588, 43595>>, <<43600, 43609>>,
       <<43616, 43638>>, <<43642, 43642>>, <<43646, 43695>>, <<43697, 43697>>,
       <<43701, 43702>>, <<43705, 43709>>, <<43712, 43712>>, <<43714, 43714>>,
       <<43739, 43741>>, <<43744, 43754>>, <<43762, 43764>>, <<43777, 43782>>,
       <<43785, 43790>>, <<43793, 43798>>, <<43808, 43814>>, <<43816, 43822>>,
       <<43824, 43866>>, <<43868, 43881>>, <<43888, 44002>>, <<44016, 44025>>,
       <<44032, 55203>>, <<55216, 55238>>, <<55243, 55291>>, <<63744, 64109>>,
       <<64112, 64217>>, <<64256, 64262>>, <<64275, 64279>>, <<64285, 64285>>,
       <<64287, 64296>>, <<64298, 64310>>, <<64312, 64316>>, <<64318, 64318>>,
       <<64320, 64321>>, <<64323, 64324>>, <<64326, 64433>>, <<64467, 64829>>,
       <<64848, 64911>>, <<64914, 64967>>, <<65008, 65019>>, <<65136, 65140>>,
       <<65142, 65276>>, <<65296, 65305>>, <<65313, 65338>>, <<65345, 65370>>,
       <<65382, 65470>>, <<65474, 65479>>, <<65482, 65487>>, <<65490, 65495>>,
       <<65498, 65500>>, <<65536, 65547>>, <<65549, 65574>>, <<65576, 65594>>,
       <<65596, 65597>>, <<65599, 65613>>, <<65616, 65629>>, <<65664, 65786>>,
       <<65799, 65843>>, <<65856, 65912>>, <<65930, 65931>>, <<66176, 66204>>,
       <<66208, 66256>>, <<66273, 66299>>, <<66304, 66339>>, <<66349, 66378>>,
       <<66384, 66421>>, <<66432, 66461>>, <<66464, 66499>>, <<66504, 66511>>,
       <<66513, 66517>>, <<66560, 66717>>, <<66720, 66729>>, <<66736, 66771>>,
       <<66776, 66811>>, <<66816, 66855>>, <<66864, 66915>>, <<66928, 66938>>,
       <<66940, 66954>>, <<66956, 66962>>, <<66964, 66965>>, <<66967, 66977>>,
       <<66979, 66993>>, <<66995, 67001>>, <<67003, 67004>>, <<67072, 67382>>,
       <<67392, 67413>>, <<67424, 67431>>, <<67456, 67461>>, <<67463, 67504>>,
       <<67506, 67514>>, <<67584, 67589>>, <<67592, 67592>>, <<67594, 67637>>,
       <<67639, 67640>>, <<67644, 67644>>, <<67647, 67669>>, <<67672, 67702>>,
       <<67705, 67742>>, <<67751, 67759>>, <<67808, 67826>>, <<67828, 67829>>,
       <<67835, 67867>>, <<67872, 67897>>, <<67968, 68023>>, <<68028, 68047>>,
       <<68050, 68096>>, <<68112, 68115>>, <<68117, 68119>>, <<68121, 68149>>,
       <<68160, 68168>>, <<68192, 68222>>, <<68224, 68255>>, <<68288, 68295>>,
       <<68297, 68324>>, <<68331, 68335>>, <<68352, 68405>>, <<68416, 68437>>,
       <<68440, 68466>>, <<68472, 68497>>, <<68521, 68527>>, <<68608, 68680>>,
       <<68736, 68786>>, <<68800, 68850>>, <<68858, 68899>>, <<68912, 68921>>,
       <<69216, 69246>>, <<69248, 69289>>, <<69296, 69297>>, <<69376, 69415>>,
       <<69424, 69445>>, <<69457, 69460>>, <<69488, 69505>>, <<69552, 69579>>,
       <<69600, 69622>>, <<69635, 69687>>, <<69714, 69743>>, <<69745, 69746>>,
       <<69749, 69749>>, <<69763, 69807>>, <<69840, 69864>>, <<69872, 69881>>,
       <<69891, 69926>>, <<69942, 69951>>, <<69956, 69956>>, <<69959, 69959>>,
       <<69968, 70002>>, <<70006, 70006>>, <<70019, 70066>>, <<70081, 70084>>,
       <<70096, 70106>>, <<70108, 70108>>, <<70113, 70132>>, <<70144, 70161>>,
       <<70163, 70187>>, <<70272, 70278>>, <<70280, 70280>>, <<70282, 70285>>,
       <<70287, 70301>>, <<70303, 70312>>, <<70320, 70366>>, <<70384, 70393>>,
       <<70405, 70412>>, <<70415, 70416>>, <<70419, 70440>>, <<70442, 70448>>,
       <<70450, 70451>>, <<70453, 70457>>, <<70461, 70461>>, <<70480, 70480>>,
       <<70493, 70497>>, <<70656, 70708>>, <<70727, 70730>>, <<70736, 70745>>,
       <<70751, 70753>>, <<70784, 70831>>, <<70852, 70853>>, <<70855, 70855>>,
       <<70864, 70873>>, <<71040, 71086>>, <<71128, 71131>>, <<71168, 71215>>,
       <<71236, 71236>>, <<71248, 71257>>, <<71296, 71338>>, <<71352, 71352>>,
       <<71360, 71369>>, <<71424, 71450>>, <<71472, 71483>>, <<71488, 71494>>,
       <<71680, 71723>>, <<71840, 71922>>, <<71935, 71942>>, <<71945, 71945>>,
       <<71948, 71955>>, <<71957, 71958>>, <<71960, 71983>>, <<71999, 71999>>,
       <<72001, 72001>>, <<72016, 72025>>, <<72096, 72103>>, <<72106, 72144>>,
       <<72161, 72161>>, <<72163, 72163>>, <<72192, 72192>>, <<72203, 72242>>,
       <<72250, 72250>>, <<72272, 72272>>, <<72284, 72329>>, <<72349, 72349>>,
       <<72368, 72440>>, <<72704, 72712>>, <<72714, 72750>>, <<72768, 72768>>,
       <<72784, 72812>>, <<72818, 72847>>, <<72960, 72966>>, <<72968, 72969>>,
       <<72971, 73008>>, <<73030, 73030>>, <<73040, 73049>>, <<73056, 73061>>,
       <<73063, 73064>>, <<73066, 73097>>, <<73112, 73112>>, <<73120, 73129>>,
       <<73440, 73458>>, <<73648, 73648>>, <<73664, 73684>>, <<73728, 74649>>,
       <<74752, 74862>>, <<74880, 75075>>, <<77712, 77808>>, <<77824, 78894>>,
       <<82944, 83526>>, <<92160, 92728>>, <<92736, 92766>>, <<92768, 92777>>,
       <<92784, 92862>>, <<92864, 92873>>, <<92880, 92909>>, <<92928, 92975>>,
       <<92992, 92995>>, <<93008, 93017>>, <<93019, 93025>>, <<93027, 93047>>,
       <<93053, 93071>>, <<93760, 93846>>, <<93952, 94026>>, <<94032, 94032>>,
       <<94099, 94111>>, <<94176, 94177>>, <<94179, 94179>>, <<94208, 100343>>,
       <<100352, 101589>>, <<101632, 101640>>, <<110576, 110579>>, <<110581, 110587>>,
       <<110589, 110590>>, <<110592, 110882>>, <<110928, 110930>>, <<110948, 110951>>,
       <<110960, 111355>>, <<113664, 113770>>, <<113776, 113788>>, <<113792, 113800>>,
       <<113808, 113817>>, <<119520, 119539>>, <<119648, 119672>>, <<119808, 119892>>,
       <<119894, 119964>>, <<119966, 119967>>, <<119970, 119970>>, <<119973, 119974>>,
       <<119977, 119980>>, <<119982, 119993>>, <<119995, 119995>>, <<119997, 120003>>,
       <<120005, 120069>>, <<120071, 120074>>, <<120077, 120084>>, <<120086, 120092>>,
       <<120094, 120121>>, <<120123, 120126>>, <<120128, 120132>>, <<120134, 120134>>,
       <<120138, 120144>>, <<120146, 120485>>, <<120488, 120512>>, <<120514, 120538>>,
       <<120540, 120570>>, <<120572, 120596>>, <<120598, 120628>>, <<120630, 120654>>,
       <<120656, 120686>>, <<120688, 120712>>, <<120714, 120744>>, <<120746, 120770>>,
       <<120772, 120779>>, <<120782, 120831>>, <<122624, 122654>>, <<123136, 123180>>,
       <<123191, 123197>>, <<123200, 123209>>, <<123214, 123214>>, <<123536, 123565>>,
       <<123584, 123627>>, <<123632, 123641>>, <<124896, 124902>>, <<124904, 124907>>,
       <<124909, 124910>>, <<124912, 124926>>, <<124928, 125124>>, <<125127, 125135>>,
       <<125184, 125251>>, <<125259, 125259>>, <<125264, 125273>>, <<126065, 126123>>,
       <<126125, 126127>>, <<126129, 126132>>, <<126209, 126253>>, <<126255, 126269>>,
       <<126464, 126467>>, <<126469, 126495>>, <<126497, 126498>>, <<126500, 126500>>,
       <<126503, 126503>>, <<126505, 126514>>, <<126516, 126519>>, <<126521, 126521>>,
       <<126523, 126523>>, <<126530, 126530>>, <<126535, 126535>>, <<126537, 126537>>,
       <<126539, 126539>>, <<126541, 126543>>, <<126545, 126546>>, <<126548, 126548>>,
       <<126551, 126551>>, <<126553, 126553>>, <<126555, 126555>>, <<126557, 126557>>,
       <<126559, 126559>>, <<126561, 126562>>, <<126564, 126564>>, <<126567, 126570>>,
       <<126572, 126578>>, <<126580, 126583>>, <<126585, 126588>>, <<126590, 126590>>,
       <<126592, 126601>>, <<126603, 126619>>, <<126625, 126627>>, <<126629, 126633>>,
       <<126635, 126651>>, <<127232, 127244>>, <<130032, 130041>>, <<131072, 173791>>,
       <<173824, 177976>>, <<177984, 178205>>, <<178208, 183969>>, <<183984, 191456>>,
       <<194560, 195101>>, <<196608, 201546>> >>

\* the case-ignorable characters, as <<first, last>> ranges
CaseIgnorableRanges ==
    << <<39, 39>>, <<46, 46>>, <<58, 58>>, <<94, 94>>, <<96, 96>>, <<168, 168>>,
       <<173, 173>>, <<175, 175>>, <<180, 180>>, <<183, 184>>, <<688, 879>>,
       <<884, 885>>, <<890, 890>>, <<900, 901>>, <<903, 903>>, <<1155, 1161>>,
       <<1369, 1369>>, <<1375, 1375>>, <<1425, 1469>>, <<1471, 1471>>, <<1473, 1474>>,
       <<1476, 1477>>, <<1479, 1479>>, <<1524, 1524>>, <<1536, 1541>>, <<1552, 1562>>,
       <<1564, 1564>>, <<1600, 1600>>, <<1611, 1631>>, <<1648, 1648>>, <<1750, 1757>>,
       <<1759, 1768>>, <<1770, 1773>>, <<1807, 1807>>, <<1809, 1809>>, <<1840, 1866>>,
       <<1958, 1968>>, <<2027, 2037>>, <<2042, 2042>>, <<2045, 2045>>, <<2070, 2093>>,
       <<2137, 2139>>, <<2184, 2184>>, <<2192, 2193>>, <<2200, 2207>>, <<2249, 2306>>,
       <<2362, 2362>>, <<2364, 2364>>, <<2369, 2376>>, <<2381, 2381>>, <<2385, 2391>>,
       <<2402, 2403>>, <<2417, 2417>>, <<2433, 2433>>, <<2492, 2492>>, <<2497, 2500>>,
       <<2509, 2509>>, <<2530, 2531>>, <<2558, 2558>>, <<2561, 2562>>, <<2620, 2620>>,
       <<2625, 2626>>, <<2631, 2632>>, <<2635, 2637>>, <<2641, 2641>>, <<2672, 2673>>,
       <<2677, 2677>>, <<2689, 2690>>, <<2748, 2748>>, <<2753, 2757>>, <<2759, 2760>>,
       <<2765, 2765>>, <<2786, 2787>>, <<2810, 2815>>, <<2817, 2817>>, <<2876, 2876>>,
       <<2879, 2879>>, <<2881, 2884>>, <<2893, 2893>>, <<2901, 2902>>, <<2914, 2915>>,
       <<2946, 2946>>, <<3008, 3008>>, <<3021, 3021>>, <<3072, 3072>>, <<3076, 3076>>,
       <<3132, 3132>>, <<3134, 3136>>, <<3142, 3144>>, <<3146, 3149>>, <<3157, 3158>>,
       <<3170, 3171>>, <<3201, 3201>>, <<3260, 3260>>, <<3263, 3263>>, <<3270, 3270>>,
       <<3276, 3277>>, <<3298, 3299>>, <<3328, 3329>>, <<3387, 3388>>, <<3393, 3396>>,
       <<3405, 3405>>, <<3426, 3427>>, <<3457, 3457>>, <<3530, 3530>>, <<3538, 3540>>,
       <<3542, 3542>>, <<3633, 3633>>, <<3636, 3642>>, <<3654, 3662>>, <<3761, 3761>>,
       <<3764, 3772>>, <<3782, 3782>>, <<3784, 3789>>, <<3864, 3865>>, <<3893, 3893>>,
       <<3895, 3895>>, <<3897, 3897>>, <<3953, 3966>>, <<3968, 3972>>, <<3974, 3975>>,
       <<3981, 3991>>, <<3993, 4028>>, <<4038, 4038>>, <<4141, 4144>>, <<4146, 4151>>,
       <<4153, 4154>>, <<4157, 4158>>, <<4184, 4185>>, <<4190, 4192>>, <<4209, 4212>>,
       <<4226, 4226>>, <<4229, 4230>>, <<4237, 4237>>, <<4253, 4253>>, <<4348, 4348>>,
       <<4957, 4959>>, <<5906, 5908>>, <<5938, 5939>>, <<5970, 5971>>, <<6002, 6003>>,
       <<6068, 6069>>, <<6071, 6077>>, <<6086, 6086>>, <<6089, 6099>>, <<6103, 6103>>,
       <<6109, 6109>>, <<6155, 6159>>, <<6211, 6211>>, <<6277, 6278>>, <<6313, 6313>>,
       <<6432, 6434>>, <<6439, 6440>>, <<6450, 6450>>, <<6457, 6459>>, <<6679, 6680>>,
       <<6683, 6683>>, <<6742, 6742>>, <<6744, 6750>>, <<6752, 6752>>, <<6754, 6754>>,
       <<6757, 6764>>, <<6771, 6780>>, <<6783, 6783>>, <<6823, 6823>>, <<6832, 6862>>,
       <<6912, 6915>>, <<6964, 6964>>, <<6966, 6970>>, <<6972, 6972>>, <<6978, 6978>>,
       <<7019, 7027>>, <<7040, 7041>>, <<7074, 7077>>, <<7080, 7081>>, <<7083, 7085>>,
       <<7142, 7142>>, <<7144, 7145>>, <<7149, 7149>>, <<7151, 7153>>, <<7212, 7219>>,
       <<7222, 7223>>, <<7288, 7293>>, <<7376, 7378>>, <<7380, 7392>>, <<7394, 7400>>,
       <<7405, 7405>>, <<7412, 7412>>, <<7416, 7417>>, <<7468, 7530>>, <<7544, 7544>>,
       <<7579, 7679>>, <<8125, 8125>>, <<8127, 8129>>, <<8141, 8143>>, <<8157, 8159>>,
       <<8173, 8175>>, <<8189, 8190>>, <<8203, 8207>>, <<8216, 8217>>, <<8228, 8228>>,
       <<8231, 8231>>, <<8234, 8238>>, <<8288, 8292>>, <<8294, 8303>>, <<8305, 8305>>,
       <<8319, 8319>>, <<8336, 8348>>, <<8400, 8432>>, <<11388, 11389>>,
       <<11503, 11505>>, <<11631, 11631>>, <<11647, 11647>>, <<11744, 11775>>,
       <<11823, 11823>>, <<12293, 12293>>, <<12330, 12333>>, <<12337, 12341>>,
       <<12347, 12347>>, <<12441, 12446>>, <<12540, 12542>>, <<40981, 40981>>,
       <<42232, 42237>>, <<42508, 42508>>, <<42607, 42610>>, <<42612, 42621>>,
       <<42623, 42623>>, <<42652, 42655>>, <<42736, 42737>>, <<42752, 42785>>,
       <<42864, 42864>>, <<42888, 42890>>, <<42994, 42996>>, <<43000, 43001>>,
       <<43010, 43010>>, <<43014, 43014>>, <<43019, 43019>>, <<43045, 43046>>,
       <<43052, 43052>>, <<43204, 43205>>, <<43232, 43249>>, <<43263, 43263>>,
       <<43302, 43309>>, <<43335, 43345>>, <<43392, 43394>>, <<43443, 43443>>,
       <<43446, 43449>>, <<43452, 43453>>, <<43471, 43471>>, <<43493, 43494>>,
       <<43561, 43566>>, <<43569, 43570>>, <<43573, 43574>>, <<43587, 43587>>,
       <<43596, 43596>>, <<43632, 43632>>, <<43644, 43644>>, <<43696, 43696>>,
       <<43698, 43700>>, <<43703, 43704>>, <<43710, 43711>>, <<43713, 43713>>,
       <<43741, 43741>>, <<43756, 43757>>, <<43763, 43764>>, <<43766, 43766>>,
       <<43867, 43871>>, <<43881, 43883>>, <<44005, 44005>>, <<44008, 44008>>,
       <<44013, 44013>>, <<64286, 64286>>, <<64434, 64450>>, <<65024, 65039>>,
       <<65043, 65043>>, <<65056, 65071>>, <<65106, 65106>>, <<65109, 65109>>,
       <<65279, 65279>>, <<65287, 65287>>, <<65294, 65294>>, <<65306, 65306>>,
       <<65342, 65342>>, <<65344, 65344>>, <<65392, 65392>>, <<65438, 65439>>,
       <<65507, 65507>>, <<65529, 65531>>, <<66045, 66045>>, <<66272, 66272>>,
       <<66422, 66426>>, <<67456, 67461>>, <<67463, 67504>>, <<67506, 67514>>,
       <<68097, 68099>>, <<68101, 68102>>, <<68108, 68111>>, <<68152, 68154>>,
       <<68159, 68159>>, <<68325, 68326>>, <<68900, 68903>>, <<69291, 69292>>,
       <<69446, 69456>>, <<69506, 69509>>, <<69633, 69633>>, <<69688, 69702>>,
       <<69744, 69744>>, <<69747, 69748>>, <<69759, 69761>>, <<69811, 69814>>,
       <<69817, 69818>>, <<69821, 69821>>, <<69826, 69826>>, <<69837, 69837>>,
       <<69888, 69890>>, <<69927, 69931>>, <<69933, 69940>>, <<70003, 70003>>,
       <<70016, 70017>>, <<70070, 70078>>, <<70089, 70092>>, <<70095, 70095>>,
       <<70191, 70193>>, <<70196, 70196>>, <<70198, 70199>>, <<70206, 70206>>,
       <<70367, 70367>>, <<70371, 70378>>, <<70400, 70401>>, <<70459, 70460>>,
       <<70464, 70464>>, <<70502, 70508>>, <<70512, 70516>>, <<70712, 70719>>,
       <<70722, 70724>>, <<70726, 70726>>, <<70750, 70750>>, <<70835, 70840>>,
       <<70842, 70842>>, <<70847, 70848>>, <<70850, 70851>>, <<71090, 71093>>,
       <<71100, 71101>>, <<71103, 71104>>, <<71132, 71133>>, <<71219, 71226>>,
       <<71229, 71229>>, <<71231, 71232>>, <<71339, 71339>>, <<71341, 71341>>,
       <<71344, 71349>>, <<71351, 71351>>, <<71453, 71455>>, <<71458, 71461>>,
       <<71463, 71467>>, <<71727, 71735>>, <<71737, 71738>>, <<71995, 71996>>,
       <<71998, 71998>>, <<72003, 72003>>, <<72148, 72151>>, <<72154, 72155>>,
       <<72160, 72160>>, <<72193, 72202>>, <<72243, 72248>>, <<72251, 72254>>,
       <<72263, 72263>>, <<72273, 72278>>, <<72281, 72283>>, <<72330, 72342>>,
       <<72344, 72345>>, <<72752, 72758>>, <<72760, 72765>>, <<72767, 72767>>,
       <<72850, 72871>>, <<72874, 72880>>, <<72882, 72883>>, <<72885, 72886>>,
       <<73009, 73014>>, <<73018, 73018>>, <<73020, 73021>>, <<73023, 73029>>,
       <<73031, 73031>>, <<73104, 73105>>, <<73109, 73109>>, <<73111, 73111>>,
       <<73459, 73460>>, <<78896, 78904>>, <<92912, 92916>>, <<92976, 92982>>,
       <<92992, 92995>>, <<94031, 94031>>, <<94095, 94111>>, <<94176, 94177>>,
       <<94179, 94180>>, <<110576, 110579>>, <<110581, 110587>>, <<110589, 110590>>,
       <<113821, 113822>>, <<113824, 113827>>, <<118528, 118573>>, <<118576, 118598>>,
       <<119143, 119145>>, <<119155, 119170>>, <<119173, 119179>>, <<119210, 119213>>,
       <<119362, 119364>>, <<121344, 121398>>, <<121403, 121452>>, <<121461, 121461>>,
       <<121476, 121476>>, <<121499, 121503>>, <<121505, 121519>>, <<122880, 122886>>,
       <<122888, 122904>>, <<122907, 122913>>, <<122915, 122916>>, <<122918, 122922>>,
       <<123184, 123197>>, <<123566, 123566>>, <<123628, 123631>>, <<125136, 125142>>,
       <<125252, 125259>>, <<127995, 127999>>, <<917505, 917505>>, <<917536, 917631>>,
       <<917760, 917999>> >>

\* the cased characters that are not case-ignorable, as <<first, last>> ranges
CasedRanges ==
    << <<65, 90>>, <<97, 122>>, <<170, 170>>, <<181, 181>>, <<186, 186>>, <<192, 214>>,
       <<216, 246>>, <<248, 442>>, <<444, 447>>, <<452, 659>>, <<661, 687>>,
       <<880, 883>>, <<886, 887>>, <<891, 893>>, <<895, 895>>, <<902, 902>>,
       <<904, 906>>, <<908, 908>>, <<910, 929>>, <<931, 1013>>, <<1015, 1153>>,
       <<1162, 1327>>, <<1329, 1366>>, <<1376, 1416>>, <<4256, 4293>>, <<4295, 4295>>,
       <<4301, 4301>>, <<4304, 4346>>, <<4349, 4351>>, <<5024, 5109>>, <<5112, 5117>>,
       <<7296, 7304>>, <<7312, 7354>>, <<7357, 7359>>, <<7424, 7467>>, <<7531, 7543>>,
       <<7545, 7578>>, <<7680, 7957>>, <<7960, 7965>>, <<7968, 8005>>, <<8008, 8013>>,
       <<8016, 8023>>, <<8025, 8025>>, <<8027, 8027>>, <<8029, 8029>>, <<8031, 8061>>,
       <<8064, 8116>>, <<8118, 8124>>, <<8126, 8126>>, <<8130, 8132>>, <<8134, 8140>>,
       <<8144, 8147>>, <<8150, 8155>>, <<8160, 8172>>, <<8178, 8180>>, <<8182, 8188>>,
       <<8450, 8450>>, <<8455, 8455>>, <<8458, 8467>>, <<8469, 8469>>, <<8473, 8477>>,
       <<8484, 8484>>, <<8486, 8486>>, <<8488, 8488>>, <<8490, 8493>>, <<8495, 8500>>,
       <<8505, 8505>>, <<8508, 8511>>, <<8517, 8521>>, <<8526, 8526>>, <<8544, 8575>>,
       <<8579, 8580>>, <<9398, 9449>>, <<11264, 11387>>, <<11390, 11492>>,
       <<11499, 11502>>, <<11506, 11507>>, <<11520, 11557>>, <<11559, 11559>>,
       <<11565, 11565>>, <<42560, 42605>>, <<42624, 42651>>, <<42786, 42863>>,
       <<42865, 42887>>, <<42891, 42894>>, <<42896, 42954>>, <<42960, 42961>>,
       <<42963, 42963>>, <<42965, 42969>>, <<42997, 42998>>, <<43002, 43002>>,
       <<43824, 43866>>, <<43872, 43880>>, <<43888, 43967>>, <<64256, 64262>>,
       <<64275, 64279>>, <<65313, 65338>>, <<65345, 65370>>, <<66560, 66639>>,
       <<66736, 66771>>, <<66776, 66811>>, <<66928, 66938>>, <<66940, 66954>>,
       <<66956, 66962>>, <<66964, 66965>>, <<66967, 66977>>, <<66979, 66993>>,
       <<66995, 67001>>, <<67003, 67004>>, <<68736, 68786>>, <<68800, 68850>>,
       <<71840, 71903>>, <<93760, 93823>>, <<119808, 119892>>, <<119894, 119964>>,
       <<119966, 119967>>, <<119970, 119970>>, <<119973, 119974>>, <<119977, 119980>>,
       <<119982, 119993>>, <<119995, 119995>>, <<119997, 120003>>, <<120005, 120069>>,
       <<120071, 120074>>, <<120077, 120084>>, <<120086, 120092>>, <<120094, 120121>>,
       <<120123, 120126>>, <<120128, 120132>>, <<120134, 120134>>, <<120138, 120144>>,
       <<120146, 120485>>, <<120488, 120512>>, <<120514, 120538>>, <<120540, 120570>>,
       <<120572, 120596>>, <<120598, 120628>>, <<120630, 120654>>, <<120656, 120686>>,
       <<120688, 120712>>, <<120714, 120744>>, <<120746, 120770>>, <<120772, 120779>>,
       <<122624, 122633>>, <<122635, 122654>>, <<125184, 125251>>, <<127280, 127305>>,
       <<127312, 127337>>, <<127344, 127369>> >>

\* one-character lowercase mappings: <<first, last, step, offset>> maps
\* first, first+step, ..., last to itself plus offset
LowerRuns ==
    << <<192, 214, 1, 32>>, <<216, 222, 1, 32>>, <<256, 302, 2, 1>>, <<306, 310, 2, 1>>,
       <<313, 327, 2, 1>>, <<330, 374, 2, 1>>, <<376, 376, 1, -121>>, <<377, 381, 2, 1>>,
       <<385, 385, 1, 210>>, <<386, 388, 2, 1>>, <<390, 390, 1, 206>>,
       <<391, 391, 1, 1>>, <<393, 394, 1, 205>>, <<395, 395, 1, 1>>, <<398, 398, 1, 79>>,
       <<399, 399, 1, 202>>, <<400, 400, 1, 203>>, <<401, 401, 1, 1>>,
       <<403, 403, 1, 205>>, <<404, 404, 1, 207>>, <<406, 406, 1, 211>>,
       <<407, 407, 1, 209>>, <<408, 408, 1, 1>>, <<412, 412, 1, 211>>,
       <<413, 413, 1, 213>>, <<415, 415, 1, 214>>, <<416, 420, 2, 1>>,
       <<422, 422, 1, 218>>, <<423, 423, 1, 1>>, <<425, 425, 1, 218>>,
       <<428, 428, 1, 1>>, <<430, 430, 1, 218>>, <<431, 431, 1, 1>>,
       <<433, 434, 1, 217>>, <<435, 437, 2, 1>>, <<439, 439, 1, 219>>,
       <<440, 440, 1, 1>>, <<444, 444, 1, 1>>, <<452, 452, 1, 2>>, <<453, 453, 1, 1>>,
       <<455, 455, 1, 2>>, <<456, 456, 1, 1>>, <<458, 458, 1, 2>>, <<459, 475, 2, 1>>,
       <<478, 494, 2, 1>>, <<497, 497, 1, 2>>, <<498, 500, 2, 1>>, <<502, 502, 1, -97>>,
       <<503, 503, 1, -56>>, <<504, 542, 2, 1>>, <<544, 544, 1, -130>>,
       <<546, 562, 2, 1>>, <<570, 570, 1, 10795>>, <<571, 571, 1, 1>>,
       <<573, 573, 1, -163>>, <<574, 574, 1, 10792>>, <<577, 577, 1, 1>>,
       <<579, 579, 1, -195>>, <<580, 580, 1, 69>>, <<581, 581, 1, 71>>,
       <<582, 590, 2, 1>>, <<880, 882, 2, 1>>, <<886, 886, 1, 1>>, <<895, 895, 1, 116>>,
       <<902, 902, 1, 38>>, <<904, 906, 1, 37>>, <<908, 908, 1, 64>>,
       <<910, 911, 1, 63>>, <<913, 929, 1, 32>>, <<931, 939, 1, 32>>, <<975, 975, 1, 8>>,
       <<984, 1006, 2, 1>>, <<1012, 1012, 1, -60>>, <<1015, 1015, 1, 1>>,
       <<1017, 1017, 1, -7>>, <<1018, 1018, 1, 1>>, <<1021, 1023, 1, -130>>,
       <<1024, 1039, 1, 80>>, <<1040, 1071, 1, 32>>, <<1120, 1152, 2, 1>>,
       <<1162, 1214, 2, 1>>, <<1216, 1216, 1, 15>>, <<1217, 1229, 2, 1>>,
       <<1232, 1326, 2, 1>>, <<1329, 1366, 1, 48>>, <<4256, 4293, 1, 7264>>,
       <<4295, 4295, 1, 7264>>, <<4301, 4301, 1, 7264>>, <<5024, 5103, 1, 38864>>,
       <<5104, 5109, 1, 8>>, <<7312, 7354, 1, -3008>>, <<7357, 7359, 1, -3008>>,
       <<7680, 7828, 2, 1>>, <<7838, 7838, 1, -7615>>, <<7840, 7934, 2, 1>>,
       <<7944, 7951, 1, -8>>, <<7960, 7965, 1, -8>>, <<7976, 7983, 1, -8>>,
       <<7992, 7999, 1, -8>>, <<8008, 8013, 1, -8>>, <<8025, 8031, 2, -8>>,
       <<8040, 8047, 1, -8>>, <<8072, 8079, 1, -8>>, <<8088, 8095, 1, -8>>,
       <<8104, 8111, 1, -8>>, <<8120, 8121, 1, -8>>, <<8122, 8123, 1, -74>>,
       <<8124, 8124, 1, -9>>, <<8136, 8139, 1, -86>>, <<8140, 8140, 1, -9>>,
       <<8152, 8153, 1, -8>>, <<8154, 8155, 1, -100>>, <<8168, 8169, 1, -8>>,
       <<8170, 8171, 1, -112>>, <<8172, 8172, 1, -7>>, <<8184, 8185, 1, -128>>,
       <<8186, 8187, 1, -126>>, <<8188, 8188, 1, -9>>, <<8486, 8486, 1, -7517>>,
       <<8490, 8490, 1, -8383>>, <<8491, 8491, 1, -8262>>, <<8498, 8498, 1, 28>>,
       <<8544, 8559, 1, 16>>, <<8579, 8579, 1, 1>>, <<9398, 9423, 1, 26>>,
       <<11264, 11311, 1, 48>>, <<11360, 11360, 1, 1>>, <<11362, 11362, 1, -10743>>,
       <<11363, 11363, 1, -3814>>, <<11364, 11364, 1, -10727>>, <<11367, 11371, 2, 1>>,
       <<11373, 11373, 1, -10780>>, <<11374, 11374, 1, -10749>>,
       <<11375, 11375, 1, -10783>>, <<11376, 11376, 1, -10782>>, <<11378, 11378, 1, 1>>,
       <<11381, 11381, 1, 1>>, <<11390, 11391, 1, -10815>>, <<11392, 11490, 2, 1>>,
       <<11499, 11501, 2, 1>>, <<11506, 11506, 1, 1>>, <<42560, 42604, 2, 1>>,
       <<42624, 42650, 2, 1>>, <<42786, 42798, 2, 1>>, <<42802, 42862, 2, 1>>,
       <<42873, 42875, 2, 1>>, <<42877, 42877, 1, -35332>>, <<42878, 42886, 2, 1>>,
       <<42891, 42891, 1, 1>>, <<42893, 42893, 1, -42280>>, <<42896, 42898, 2, 1>>,
       <<42902, 42920, 2, 1>>, <<42922, 42922, 1, -42308>>, <<42923, 42923, 1, -42319>>,
       <<42924, 42924, 1, -42315>>, <<42925, 42925, 1, -42305>>,
       <<42926, 42926, 1, -42308>>, <<42928, 42928, 1, -42258>>,
       <<42929, 42929, 1, -42282>>, <<42930, 42930, 1, -42261>>,
       <<42931, 42931, 1, 928>>, <<42932, 42946, 2, 1>>, <<42948, 42948, 1, -48>>,
       <<42949, 42949, 1, -42307>>, <<42950, 42950, 1, -35384>>, <<42951, 42953, 2, 1>>,
       <<42960, 42960, 1, 1>>, <<42966, 42968, 2, 1>>, <<42997, 42997, 1, 1>>,
       <<65313, 65338, 1, 32>>, <<66560, 66599, 1, 40>>, <<66736, 66771, 1, 40>>,
       <<66928, 66964, 2, 39>>, <<66929, 66937, 2, 39>>, <<66941, 66953, 2, 39>>,
       <<66957, 66961, 2, 39>>, <<66965, 66965, 1, 39>>, <<68736, 68786, 1, 64>>,
       <<71840, 71871, 1, 32>>, <<93760, 93791, 1, 32>>, <<125184, 125217, 1, 34>> >>

\* lowercase mappings to more than one character
LowerSpecial ==
    (304 :> <<105, 775>>)

\* one-character uppercase mappings, as LowerRuns
UpperRuns ==
    << <<181, 181, 1, 743>>, <<224, 246, 1, -32>>, <<248, 254, 1, -32>>,
       <<255, 255, 1, 121>>, <<257, 303, 2, -1>>, <<305, 305, 1, -232>>,
       <<307, 311, 2, -1>>, <<314, 328, 2, -1>>, <<331, 375, 2, -1>>,
       <<378, 382, 2, -1>>, <<383, 383, 1, -300>>, <<384, 384, 1, 195>>,
       <<387, 389, 2, -1>>, <<392, 392, 1, -1>>, <<396, 396, 1, -1>>,
       <<402, 402, 1, -1>>, <<405, 405, 1, 97>>, <<409, 409, 1, -1>>,
       <<410, 410, 1, 163>>, <<414, 414, 1, 130>>, <<417, 421, 2, -1>>,
       <<424, 424, 1, -1>>, <<429, 429, 1, -1>>, <<432, 432, 1, -1>>,
       <<436, 438, 2, -1>>, <<441, 441, 1, -1>>, <<445, 445, 1, -1>>,
       <<447, 447, 1, 56>>, <<453, 453, 1, -1>>, <<454, 454, 1, -2>>,
       <<456, 456, 1, -1>>, <<457, 457, 1, -2>>, <<459, 459, 1, -1>>,
       <<460, 460, 1, -2>>, <<462, 476, 2, -1>>, <<477, 477, 1, -79>>,
       <<479, 495, 2, -1>>, <<498, 498, 1, -1>>, <<499, 499, 1, -2>>,
       <<501, 501, 1, -1>>, <<505, 543, 2, -1>>, <<547, 563, 2, -1>>,
       <<572, 572, 1, -1>>, <<575, 576, 1, 10815>>, <<578, 578, 1, -1>>,
       <<583, 591, 2, -1>>, <<592, 592, 1, 10783>>, <<593, 593, 1, 10780>>,
       <<594, 594, 1, 10782>>, <<595, 595, 1, -210>>, <<596, 596, 1, -206>>,
       <<598, 599, 1, -205>>, <<601, 601, 1, -202>>, <<603, 603, 1, -203>>,
       <<604, 604, 1, 42319>>, <<608, 608, 1, -205>>, <<609, 609, 1, 42315>>,
       <<611, 611, 1, -207>>, <<613, 613, 1, 42280>>, <<614, 614, 1, 42308>>,
       <<616, 616, 1, -209>>, <<617, 617, 1, -211>>, <<618, 618, 1, 42308>>,
       <<619, 619, 1, 10743>>, <<620, 620, 1, 42305>>, <<623, 623, 1, -211>>,
       <<625, 625, 1, 10749>>, <<626, 626, 1, -213>>, <<629, 629, 1, -214>>,
       <<637, 637, 1, 10727>>, <<640, 640, 1, -218>>, <<642, 642, 1, 42307>>,
       <<643, 643, 1, -218>>, <<647, 647, 1, 42282>>, <<648, 648, 1, -218>>,
       <<649, 649, 1, -69>>, <<650, 651, 1, -217>>, <<652, 652, 1, -71>>,
       <<658, 658, 1, -219>>, <<669, 669, 1, 42261>>, <<670, 670, 1, 42258>>,
       <<837, 837, 1, 84>>, <<881, 883, 2, -1>>, <<887, 887, 1, -1>>,
       <<891, 893, 1, 130>>, <<940, 940, 1, -38>>, <<941, 943, 1, -37>>,
       <<945, 961, 1, -32>>, <<962, 962, 1, -31>>, <<963, 971, 1, -32>>,
       <<972, 972, 1, -64>>, <<973, 974, 1, -63>>, <<976, 976, 1, -62>>,
       <<977, 977, 1, -57>>, <<981, 981, 1, -47>>, <<982, 982, 1, -54>>,
       <<983, 983, 1, -8>>, <<985, 1007, 2, -1>>, <<1008, 1008, 1, -86>>,
       <<1009, 1009, 1, -80>>, <<1010, 1010, 1, 7>>, <<1011, 1011, 1, -116>>,
       <<1013, 1013, 1, -96>>, <<1016, 1016, 1, -1>>, <<1019, 1019, 1, -1>>,
       <<1072, 1103, 1, -32>>, <<1104, 1119, 1, -80>>, <<1121, 1153, 2, -1>>,
       <<1163, 1215, 2, -1>>, <<1218, 1230, 2, -1>>, <<1231, 1231, 1, -15>>,
       <<1233, 1327, 2, -1>>, <<1377, 1414, 1, -48>>, <<4304, 4346, 1, 3008>>,
       <<4349, 4351, 1, 3008>>, <<5112, 5117, 1, -8>>, <<7296, 7296, 1, -6254>>,
       <<7297, 7297, 1, -6253>>, <<7298, 7298, 1, -6244>>, <<7299, 7300, 1, -6242>>,
       <<7301, 7301, 1, -6243>>, <<7302, 7302, 1, -6236>>, <<7303, 7303, 1, -6181>>,
       <<7304, 7304, 1, 35266>>, <<7545, 7545, 1, 35332>>, <<7549, 7549, 1, 3814>>,
       <<7566, 7566, 1, 35384>>, <<7681, 7829, 2, -1>>, <<7835, 7835, 1, -59>>,
       <<7841, 7935, 2, -1>>, <<7936, 7943, 1, 8>>, <<7952, 7957, 1, 8>>,
       <<7968, 7975, 1, 8>>, <<7984, 7991, 1, 8>>, <<8000, 8005, 1, 8>>,
       <<8017, 8023, 2, 8>>, <<8032, 8039, 1, 8>>, <<8048, 8049, 1, 74>>,
       <<8050, 8053, 1, 86>>, <<8054, 8055, 1, 100>>, <<8056, 8057, 1, 128>>,
       <<8058, 8059, 1, 112>>, <<8060, 8061, 1, 126>>, <<8112, 8113, 1, 8>>,
       <<8126, 8126, 1, -7205>>, <<8144, 8145, 1, 8>>, <<8160, 8161, 1, 8>>,
       <<8165, 8165, 1, 7>>, <<8526, 8526, 1, -28>>, <<8560, 8575, 1, -16>>,
       <<8580, 8580, 1, -1>>, <<9424, 9449, 1, -26>>, <<11312, 11359, 1, -48>>,
       <<11361, 11361, 1, -1>>, <<11365, 11365, 1, -10795>>, <<11366, 11366, 1, -10792>>,
       <<11368, 11372, 2, -1>>, <<11379, 11379, 1, -1>>, <<11382, 11382, 1, -1>>,
       <<11393, 11491, 2, -1>>, <<11500, 11502, 2, -1>>, <<11507, 11507, 1, -1>>,
       <<11520, 11557, 1, -7264>>, <<11559, 11559, 1, -7264>>,
       <<11565, 11565, 1, -7264>>, <<42561, 42605, 2, -1>>, <<42625, 42651, 2, -1>>,
       <<42787, 42799, 2, -1>>, <<42803, 42863, 2, -1>>, <<42874, 42876, 2, -1>>,
       <<42879, 42887, 2, -1>>, <<42892, 42892, 1, -1>>, <<42897, 42899, 2, -1>>,
       <<42900, 42900, 1, 48>>, <<42903, 42921, 2, -1>>, <<42933, 42947, 2, -1>>,
       <<42952, 42954, 2, -1>>, <<42961, 42961, 1, -1>>, <<42967, 42969, 2, -1>>,
       <<42998, 42998, 1, -1>>, <<43859, 43859, 1, -928>>, <<43888, 43967, 1, -38864>>,
       <<65345, 65370, 1, -32>>, <<66600, 66639, 1, -40>>, <<66776, 66811, 1, -40>>,
       <<66967, 67003, 2, -39>>, <<66968, 66976, 2, -39>>, <<66980, 66992, 2, -39>>,
       <<66996, 67000, 2, -39>>, <<67004, 67004, 1, -39>>, <<68800, 68850, 1, -64>>,
       <<71872, 71903, 1, -32>>, <<93792, 93823, 1, -32>>, <<125218, 125251, 1, -34>> >>

\* uppercase mappings to more than one character
UpperSpecial ==
    (223 :> <<83, 83>>) @@ (329 :> <<700, 78>>) @@ (496 :> <<74, 780>>)
    @@ (912 :> <<921, 776, 769>>) @@ (944 :> <<933, 776, 769>>)
    @@ (1415 :> <<1333, 1362>>) @@ (7830 :> <<72, 817>>) @@ (7831 :> <<84, 776>>)
    @@ (7832 :> <<87, 778>>) @@ (7833 :> <<89, 778>>) @@ (7834 :> <<65, 702>>)
    @@ (8016 :> <<933, 787>>) @@ (8018 :> <<933, 787, 768>>)
    @@ (8020 :> <<933, 787, 769>>) @@ (8022 :> <<933, 787, 834>>)
    @@ (8064 :> <<7944, 921>>) @@ (8065 :> <<7945, 921>>) @@ (8066 :> <<7946, 921>>)
    @@ (8067 :> <<7947, 921>>) @@ (8068 :> <<7948, 921>>) @@ (8069 :> <<7949, 921>>)
    @@ (8070 :> <<7950, 921>>) @@ (8071 :> <<7951, 921>>) @@ (8072 :> <<7944, 921>>)
    @@ (8073 :> <<7945, 921>>) @@ (8074 :> <<7946, 921>>) @@ (8075 :> <<7947, 921>>)
    @@ (8076 :> <<7948, 921>>) @@ (8077 :> <<7949, 921>>) @@ (8078 :> <<7950, 921>>)
    @@ (8079 :> <<7951, 921>>) @@ (8080 :> <<7976, 921>>) @@ (8081 :> <<7977, 921>>)
    @@ (8082 :> <<7978, 921>>) @@ (8083 :> <<7979, 921>>) @@ (8084 :> <<7980, 921>>)
    @@ (8085 :> <<7981, 921>>) @@ (8086 :> <<7982, 921>>) @@ (8087 :> <<7983, 921>>)
    @@ (8088 :> <<7976, 921>>) @@ (8089 :> <<7977, 921>>) @@ (8090 :> <<7978, 921>>)
    @@ (8091 :> <<7979, 921>>) @@ (8092 :> <<7980, 921>>) @@ (8093 :> <<7981, 921>>)
    @@ (8094 :> <<7982, 921>>) @@ (8095 :> <<7983, 921>>) @@ (8096 :> <<8040, 921>>)
    @@ (8097 :> <<8041, 921>>) @@ (8098 :> <<8042, 921>>) @@ (8099 :> <<8043, 921>>)
    @@ (8100 :> <<8044, 921>>) @@ (8101 :> <<8045, 921>>) @@ (8102 :> <<8046, 921>>)
    @@ (8103 :> <<8047, 921>>) @@ (8104 :> <<8040, 921>>) @@ (8105 :> <<8041, 921>>)
    @@ (8106 :> <<8042, 921>>) @@ (8107 :> <<8043, 921>>) @@ (8108 :> <<8044, 921>>)
    @@ (8109 :> <<8045, 921>>) @@ (8110 :> <<8046, 921>>) @@ (8111 :> <<8047, 921>>)
    @@ (8114 :> <<8122, 921>>) @@ (8115 :> <<913, 921>>) @@ (8116 :> <<902, 921>>)
    @@ (8118 :> <<913, 834>>) @@ (8119 :> <<913, 834, 921>>) @@ (8124 :> <<913, 921>>)
    @@ (8130 :> <<8138, 921>>) @@ (8131 :> <<919, 921>>) @@ (8132 :> <<905, 921>>)
    @@ (8134 :> <<919, 834>>) @@ (8135 :> <<919, 834, 921>>) @@ (8140 :> <<919, 921>>)
    @@ (8146 :> <<921, 776, 768>>) @@ (8147 :> <<921, 776, 769>>)
    @@ (8150 :> <<921, 834>>) @@ (8151 :> <<921, 776, 834>>)
    @@ (8162 :> <<933, 776, 768>>) @@ (8163 :> <<933, 776, 769>>)
    @@ (8164 :> <<929, 787>>) @@ (8166 :> <<933, 834>>) @@ (8167 :> <<933, 776, 834>>)
    @@ (8178 :> <<8186, 921>>) @@ (8179 :> <<937, 921>>) @@ (8180 :> <<911, 921>>)
    @@ (8182 :> <<937, 834>>) @@ (8183 :> <<937, 834, 921>>) @@ (8188 :> <<937, 921>>)
    @@ (64256 :> <<70, 70>>) @@ (64257 :> <<70, 73>>) @@ (64258 :> <<70, 76>>)
    @@ (64259 :> <<70, 70, 73>>) @@ (64260 :> <<70, 70, 76>>) @@ (64261 :> <<83, 84>>)
    @@ (64262 :> <<83, 84>>) @@ (64275 :> <<1348, 1350>>) @@ (64276 :> <<1348, 1333>>)
    @@ (64277 :> <<1348, 1339>>) @@ (64278 :> <<1358, 1350>>)
    @@ (64279 :> <<1348, 1341>>)

is_space(c) == c \in Whitespace

is_digit(c) == IF c < 128 THEN c \in 48..57 ELSE in_ranges(c, DigitRanges)

is_word(c) ==
    IF c < 128 THEN c \in (48..57) \cup (65..90) \cup {95} \cup (97..122)
    ELSE in_ranges(c, WordRanges)

run_offset(c, runs) ==
    LET hit == {k \in 1..Len(runs) :
                    /\ runs[k][1] <= c
                    /\ c <= runs[k][2]
                    /\ (c - runs[k][1]) % runs[k][3] = 0}
    IN  IF hit = {} THEN 0 ELSE runs[CHOOSE k \in hit : TRUE][4]

\* str.lower() and str.upper() of one character, as a string
ch_lower(c) ==
    IF c < 128 THEN (IF c \in 65..90 THEN <<c + 32>> ELSE <<c>>)
    ELSE IF c \in DOMAIN LowerSpecial THEN LowerSpecial[c]
    ELSE <<c + run_offset(c, LowerRuns)>>

ch_upper(c) ==
    IF c < 128 THEN (IF c \in 97..122 THEN <<c - 32>> ELSE <<c>>)
    ELSE IF c \in DOMAIN UpperSpecial THEN UpperSpecial[c]
    ELSE <<c + run_offset(c, UpperRuns)>>

RECURSIVE flatten_from(_, _)
flatten_from(parts, k) ==
    IF k > Len(parts) THEN <<>> ELSE parts[k] \o flatten_from(parts, k + 1)

\* a capital sigma at s[i] lowers to the final form when a cased character precedes
\* it and none follows it, case-ignorable characters being skipped on both sides
final_sigma(s, i) ==
    LET before == {j \in 1..(i - 1) : ~in_ranges(s[j], CaseIgnorableRanges)}
        after  == {j \in (i + 1)..Len(s) : ~in_ranges(s[j], CaseIgnorableRanges)}
    IN  /\ before # {}
        /\ in_ranges(s[CHOOSE j \in before : \A x \in before : x <= j], CasedRanges)
        /\ \/ after = {}
           \/ ~in_ranges(s[CHOOSE j \in after : \A x \in after : j <= x], CasedRanges)

is_ascii(s) == \A i \in 1..Len(s) : s[i] < 128

\* str.lower(): an ASCII string is mapped character by character; otherwise the
\* mappings of the characters are concatenated, a capital sigma by its context
str_lower(s) ==
    IF is_ascii(s)
    THEN [i \in 1..Len(s) |-> IF s[i] \in 65..90 THEN s[i] + 32 ELSE s[i]]
    ELSE flatten_from([i \in 1..Len(s) |->
                        IF s[i] = CapitalSigma
                        THEN <<IF final_sigma(s, i) THEN FinalSigma ELSE SmallSigma>>
                        ELSE ch_lower(s[i])], 1)

\* str.upper()
str_upper(s) ==
    IF is_ascii(s)
    THEN [i \in 1..Len(s) |-> IF s[i] \in 97..122 THEN s[i] - 32 ELSE s[i]]
    ELSE flatten_from([i \in 1..Len(s) |-> ch_upper(s[i])], 1)

\* str.strip(): drop leading and trailing whitespace
str_strip(s) ==
    LET keep == {i \in 1..Len(s) : s[i] \notin Whitespace}
    IN  IF keep = {} THEN <<>>
        ELSE LET lo == CHOOSE i \in keep : \A j \in keep : i <= j
                 hi == CHOOSE i \in keep : \A j \in keep : i >= j
             IN  SubSeq(s, lo, hi)

\* str.rstrip(chars): drop the trailing characters that are in chars
str_rstrip(s, chars) ==
    LET keep == {i \in 1..Len(s) : s[i] \notin chars}
    IN  IF keep = {} THEN <<>>
        ELSE SubSeq(s, 1, CHOOSE i \in keep : \A j \in keep : i >= j)

\* sub in s (substring test)
str_contains(s, sub) ==
    \E i \in 0..(Len(s) - Len(sub)) : SubSeq(s, i + 1, i + Len(sub)) = sub

\* s.replace(old, new) for a one-character old and new
str_replace(s, old, new) == [i \in 1..Len(s) |-> IF s[i] = old THEN new ELSE s[i]]

\* s.replace(old, "") for a one-character old
str_remove(s, old) == SelectSeq(s, LAMBDA c : c # old)

\* s.split(): the maximal runs of non-whitespace characters
RECURSIVE split_from(_, _, _, _)
split_from(s, i, cur, acc) ==
    IF i > Len(s)
    THEN IF cur = <<>> THEN acc ELSE Append(acc, cur)
    ELSE IF s[i] \in Whitespace
         THEN split_from(s, i + 1, <<>>, IF cur = <<>> THEN acc ELSE Append(acc, cur))
         ELSE split_from(s, i + 1, Append(cur, s[i]), acc)

str_split(s) == split_from(s, 1, <<>>, <<>>)

\* " ".join(words)
RECURSIVE str_join(_)
str_join(words) ==
    IF words = <<>> THEN <<>>
    ELSE IF Len(words) = 1 THEN words[1]
         ELSE words[1] \o <<Space>> \o str_join(Tail(words))

\* membership of a value in a Python list
InList(x, lst) == \E k \in 1..Len(lst) : lst[k] = x

(* ---------------------------- regular expressions ---------------------- *)
\* A position p in a text t is the number of characters before it, 0..Len(t).

\* the characters a character of the two patterns matches under re.I: both cases of
\* a letter, and with them U+0130 and U+0131 for "i", U+017F for "s"
ignorecase_set(lit) ==
    LET other == IF lit \in 97..122 THEN {lit - 32}
                 ELSE IF lit \in 65..90 THEN {lit + 32} ELSE {}
        low == IF lit \in 65..90 THEN lit + 32 ELSE lit
        extra == IF low = 105 THEN {304, 305}
                 ELSE IF low = 115 THEN {383} ELSE {}
    IN  {lit} \cup other \cup extra

\* the pattern literal lit matches t at p, letter case ignored
literal_at(t, p, lit) ==
    /\ p + Len(lit) <= Len(t)
    /\ \A k \in 1..Len(lit) : t[p + k] \in ignorecase_set(lit[k])

\* \s* and \d+ are greedy: the end of the run of whitespace (digits) that starts at p
RECURSIVE ws_end(_, _)
ws_end(t, p) == IF p < Len(t) /\ is_space(t[p + 1]) THEN ws_end(t, p + 1) ELSE p

RECURSIVE digits_end(_, _)
digits_end(t, p) == IF p < Len(t) /\ is_digit(t[p + 1]) THEN digits_end(t, p + 1) ELSE p

\* \b
word_boundary(t, p) ==
    (p > 0 /\ is_word(t[p])) # (p < Len(t) /\ is_word(t[p + 1]))

\* $ without re.M: the end of the text, or just before a final line feed
at_end(t, p) == p = Len(t) \/ (p = Len(t) - 1 /\ t[Len(t)] = LineFeed)

\* \s{2,}
two_spaces_at(t, p) == p + 2 <= Len(t) /\ is_space(t[p + 1]) /\ is_space(t[p + 2])

LitTest == <<84, 101, 115, 116>>
LitDevice == <<68, 101, 118, 105, 99, 101>>
LitTestColon == <<84, 101, 115, 116, 58>>

\* SRC_NAME_RE: \b\d+(?:\.\d+)?\s*__  matched at i; the position after "__", or -1.
\* Every quantifier here has one length that lets the next item match.
src_prefix_end(t, i) ==
    IF ~(i < Len(t) /\ is_digit(t[i + 1]) /\ word_boundary(t, i)) THEN -1
    ELSE LET j == digits_end(t, i)
             k == IF j + 1 < Len(t) /\ t[j + 1] = Dot /\ is_digit(t[j + 2])
                  THEN digits_end(t, j + 1) ELSE j
             m == ws_end(t, k)
         IN  IF m + 2 <= Len(t) /\ t[m + 1] = Underscore /\ t[m + 2] = Underscore
             THEN m + 2 ELSE -1

\* (?:(?:\s{2,})|\bTest\b|$) matches at e
src_terminator(t, e) ==
    \/ two_spaces_at(t, e)
    \/ /\ literal_at(t, e, LitTest)
       /\ word_boundary(t, e)
       /\ word_boundary(t, e + Len(LitTest))
    \/ at_end(t, e)

\* ([^\r\n]*?) is lazy: the first position from e on at which the terminator
\* matches, no line break being crossed; -1 when there is none
RECURSIVE src_capture_end(_, _)
src_capture_end(t, e) ==
    IF src_terminator(t, e) THEN e
    ELSE IF e < Len(t) /\ t[e + 1] \notin {CarriageReturn, LineFeed}
         THEN src_capture_end(t, e + 1)
         ELSE -1

\* the \s* after "__" is greedy and gives characters back one at a time: the capture
\* starts at c, then at c - 1, ..., down to lo
RECURSIVE src_capture_from(_, _, _)
src_capture_from(t, lo, c) ==
    IF c < lo THEN <<>>
    ELSE LET e == src_capture_end(t, c)
         IN  IF e >= 0 THEN <<SubSeq(t, c + 1, e)>> ELSE src_capture_from(t, lo, c - 1)

\* the match that starts at i: <<group 1>>, or <<>> when there is none
src_match_at(t, i) ==
    LET n == src_prefix_end(t, i)
    IN  IF n < 0 THEN <<>> ELSE src_capture_from(t, n, ws_end(t, n))

RECURSIVE src_search_from(_, _)
src_search_from(t, i) ==
    IF i >= Len(t) THEN <<>>
    ELSE LET m == src_match_at(t, i)
         IN  IF m # <<>> THEN m ELSE src_search_from(t, i + 1)

\* SRC_NAME_RE.search(text): <<m.group(1)>>, or <<>> for None
SRC_NAME_RE_search(t) == src_search_from(t, 0)

\* (?:\.\d{1,3}){1,3} after groups groups, from p: the position after the last group
\* that can be taken, or -1 when fewer than one can
RECURSIVE tgt_groups_end(_, _, _)
tgt_groups_end(t, p, groups) ==
    LET q == IF p < Len(t) /\ t[p + 1] = Dot THEN digits_end(t, p + 1) ELSE p
    IN  IF groups < 3 /\ q - (p + 1) \in 1..3
        THEN tgt_groups_end(t, q, groups + 1)
        ELSE IF groups >= 1 THEN p ELSE -1

\* TGT_DEVTEST_RE matched at i up to the \s+ (greedy): <<start of group 2>>, or <<>>
tgt_match_at(t, i) ==
    IF ~literal_at(t, i, LitDevice) THEN <<>>
    ELSE LET a == ws_end(t, i + Len(LitDevice))
         IN  IF ~literal_at(t, a, LitTestColon) THEN <<>>
             ELSE LET b == ws_end(t, a + Len(LitTestColon))
                      d == digits_end(t, b)
                      g == IF d - b \in 1..3 THEN tgt_groups_end(t, d, 0) ELSE -1
                      c == IF g >= 0 THEN ws_end(t, g) ELSE -1
                  IN  IF g >= 0 /\ c > g THEN <<c>> ELSE <<>>

\* (?=\s{2,}|\r|\n|$) holds at e
tgt_lookahead(t, e) ==
    \/ two_spaces_at(t, e)
    \/ e < Len(t) /\ t[e + 1] \in {CarriageReturn, LineFeed}
    \/ at_end(t, e)

RECURSIVE tgt_capture_end(_, _)
tgt_capture_end(t, e) ==
    IF tgt_lookahead(t, e) THEN e ELSE tgt_capture_end(t, e + 1)

\* the matches from position i on, left to right and not overlapping: their group 2
RECURSIVE tgt_finditer_from(_, _)
tgt_finditer_from(t, i) ==
    IF i >= Len(t) THEN <<>>
    ELSE LET m == tgt_match_at(t, i)
         IN  IF m = <<>> THEN tgt_finditer_from(t, i + 1)
             ELSE LET e == tgt_capture_end(t, m[1])
                  IN  <<SubSeq(t, m[1] + 1, e)>> \o tgt_finditer_from(t, e)

\* [m.group(2) for m in TGT_DEVTEST_RE.finditer(text)]
TGT_DEVTEST_RE_finditer(t) == tgt_finditer_from(t, 0)

(* ---------------------------- normalizers ------------------------------ *)
norm_layout(s) ==
    IF s = <<>> THEN <<>>
    ELSE str_replace(str_replace(str_remove(s, SoftHyphen), EnDash, Hyphen), EmDash, Hyphen)

norm_loose(s, looseCaseInsensitive) ==
    LET s2 == str_strip(str_join(str_split(str_replace(s, Underscore, Space))))
    IN  IF looseCaseInsensitive THEN str_lower(s2) ELSE s2

\* name = m.group(k).strip().rstrip(":;,-").strip()
clean_name(capture) == str_strip(str_rstrip(str_strip(capture), TrailPunct))

(* ---------------------------- extraction ------------------------------- *)
\* the name one source page contributes: <<name>> or <<>>
source_page_names(text) ==
    LET m == SRC_NAME_RE_search(norm_layout(text))
    IN  IF m = <<>> THEN <<>>
        ELSE LET name == clean_name(m[1])
             IN  IF name # <<>> THEN <<name>> ELSE <<>>

RECURSIVE load_source_names(_)
load_source_names(doc) ==
    IF doc = <<>> THEN <<>>
    ELSE load_source_names(SubSeq(doc, 1, Len(doc) - 1))
         \o source_page_names(doc[Len(doc)])

is_dropped(name, dropWords) ==
    LET up == str_upper(name)
    IN  \E k \in 1..Len(dropWords) : str_contains(up, dropWords[k])

\* the names among the captures of one target page that are appended to page_to_names[pno]
RECURSIVE keep_names(_, _)
keep_names(captures, dropWords) ==
    IF captures = <<>> THEN <<>>
    ELSE LET name == clean_name(captures[Len(captures)])
             before == keep_names(SubSeq(captures, 1, Len(captures) - 1), dropWords)
         IN  IF name = <<>> THEN before
             ELSE IF is_dropped(name, dropWords) THEN before
             ELSE Append(before, name)

target_page_names(text, dropWords) ==
    keep_names(TGT_DEVTEST_RE_finditer(norm_layout(text)), dropWords)

page_number(i) == i + 1

load_target_tests(doc, dropWords) ==
    LET idxs == {i \in 0..(Len(doc) - 1) : target_page_names(doc[i + 1], dropWords) # <<>>}
    IN  [p \in {page_number(i) : i \in idxs} |->
            target_page_names(doc[(CHOOSE i \in idxs : page_number(i) = p) + 1], dropWords)]

(* ---------------------------- input pools ------------------------------ *)
\* the names of the scenarios
\* "Sensor_Calib"
SensorUnderscore ==
    <<83, 101, 110, 115, 111, 114, 95, 67, 97, 108, 105, 98>>

\* "sensor calib"
SensorLower ==
    <<115, 101, 110, 115, 111, 114, 32, 99, 97, 108, 105, 98>>

\* "SENSOR_CALIB"
SensorUpper ==
    <<83, 69, 78, 83, 79, 82, 95, 67, 65, 76, 73, 66>>

\* "CONTY Startup"
ContyStartup ==
    <<67, 79, 78, 84, 89, 32, 83, 116, 97, 114, 116, 117, 112>>

\* "Legacy Diagnostic"
LegacyDiagnostic ==
    << 76, 101, 103, 97, 99, 121, 32, 68, 105, 97, 103, 110, 111, 115, 116, 105, 99 >>

\* the drop-words "CONTY", "CRES", "P2P" and "conty"
DwCONTY ==
    <<67, 79, 78, 84, 89>>

DwCRES ==
    <<67, 82, 69, 83>>

DwP2P ==
    <<80, 50, 80>>

DwLowerConty ==
    <<99, 111, 110, 116, 121>>

\* "2.1 __ Sen<U+00AD>sor_Calib:\n"
SrcPageSensor ==
    << 50, 46, 49, 32, 95, 95, 32, 83, 101, 110, 173, 115, 111, 114, 95, 67, 97, 108,
       105, 98, 58, 10 >>

\* "7 __ CONTY Startup  rev A\n8 __ Sensor_Calib\n"
SrcPageConty ==
    << 55, 32, 95, 95, 32, 67, 79, 78, 84, 89, 32, 83, 116, 97, 114, 116, 117, 112, 32,
       32, 114, 101, 118, 32, 65, 10, 56, 32, 95, 95, 32, 83, 101, 110, 115, 111, 114,
       95, 67, 97, 108, 105, 98, 10 >>

\* "9 __ Test\n"
SrcPageNoName ==
    <<57, 32, 95, 95, 32, 84, 101, 115, 116, 10>>

\* "Device Test: 1.1 :\nDevice Test: 1.2 CONTY Startup\n"
TgtPageConty ==
    << 68, 101, 118, 105, 99, 101, 32, 84, 101, 115, 116, 58, 32, 49, 46, 49, 32, 58, 10,
       68, 101, 118, 105, 99, 101, 32, 84, 101, 115, 116, 58, 32, 49, 46, 50, 32, 67, 79,
       78, 84, 89, 32, 83, 116, 97, 114, 116, 117, 112, 10 >>

\* "Device Test: 2.1 Sensor_Calib\nDevice Test: 2.2 Sensor_Calib <U+2013>\n"
TgtPageSensorTwice ==
    << 68, 101, 118, 105, 99, 101, 32, 84, 101, 115, 116, 58, 32, 50, 46, 49, 32, 83,
       101, 110, 115, 111, 114, 95, 67, 97, 108, 105, 98, 10, 68, 101, 118, 105, 99, 101,
       32, 84, 101, 115, 116, 58, 32, 50, 46, 50, 32, 83, 101, 110, 115, 111, 114, 95,
       67, 97, 108, 105, 98, 32, 8211, 10 >>

\* "Device Test: 3.1 SENSOR_CALIB  DEVICE TEST:3.2 sensor calib\n"
TgtPageSensorCase ==
    << 68, 101, 118, 105, 99, 101, 32, 84, 101, 115, 116, 58, 32, 51, 46, 49, 32, 83, 69,
       78, 83, 79, 82, 95, 67, 65, 76, 73, 66, 32, 32, 68, 69, 86, 73, 67, 69, 32, 84,
       69, 83, 84, 58, 51, 46, 50, 32, 115, 101, 110, 115, 111, 114, 32, 99, 97, 108,
       105, 98, 10 >>

\* "Device Test: 4.1 Legacy Diagnostic\nDevice Test: 4.2 Sensor<U+00A0>Calib\n"
TgtPageLegacy ==
    << 68, 101, 118, 105, 99, 101, 32, 84, 101, 115, 116, 58, 32, 52, 46, 49, 32, 76,
       101, 103, 97, 99, 121, 32, 68, 105, 97, 103, 110, 111, 115, 116, 105, 99, 10, 68,
       101, 118, 105, 99, 101, 32, 84, 101, 115, 116, 58, 32, 52, 46, 50, 32, 83, 101,
       110, 115, 111, 114, 160, 67, 97, 108, 105, 98, 10 >>

\* the pages a document is made of, each with the text get_text("text") returns for it;
\* a document is the sequence of its pages, a page being named by its place here
SourcePageTexts == <<SrcPageSensor, SrcPageConty, SrcPageNoName>>

TargetPageTexts == <<TgtPageConty, TgtPageSensorTwice, TgtPageSensorCase, TgtPageLegacy>>

\* [doc[i].get_text("text") for i in range(len(doc))]
page_texts(doc, texts) == [i \in 1..Len(doc) |-> texts[doc[i]]]

\* the shipped drop-words, and the same with the first one written in lowercase
DropWordChoices ==
    { <<DwCONTY, DwCRES, DwP2P>>, <<DwLowerConty, DwCRES, DwP2P>> }

\* the shipped (empty) keep rules, and two rules
ManualKeepChoices ==
    { <<>>, <<LegacyDiagnostic, ContyStartup>> }

DocsUpTo(pool, n) == UNION {[1..k -> pool] : k \in 0..n}

SourceDocs == DocsUpTo(DOMAIN SourcePageTexts, MaxSrcPages)

TargetDocs == DocsUpTo(DOMAIN TargetPageTexts, MaxTgtPages)

\* load_source_names(SOURCE_PDF) of every source document: the text of a document
\* does not change, so the names are worked out once for each (@@ makes the table
\* an explicit function, which is looked up and not evaluated again)
SourceNamesOf ==
    [doc \in SourceDocs |-> load_source_names(page_texts(doc, SourcePageTexts))] @@ <<>>

\* load_target_tests(TARGET_PDF) of every target document, under each DROP_WORDS
TargetTestsOf ==
    [x \in TargetDocs \X DropWordChoices |->
        load_target_tests(page_texts(x[1], TargetPageTexts), x[2])] @@ <<>>

(* ---------------------------- matcher ---------------------------------- *)
\* the target names, flattened across pages
AllNames(map) == UNION {{map[p][k] : k \in 1..Len(map[p])} : p \in DOMAIN map}

count_rows(map) ==
    LET RECURSIVE sum(_)
        sum(S) == IF S = {} THEN 0
                  ELSE LET p == CHOOSE x \in S : TRUE IN Len(map[p]) + sum(S \ {p})
    IN  sum(DOMAIN map)

build_strict_set(map, strictCaseSensitive) ==
    IF strictCaseSensitive
    THEN AllNames(map)
    ELSE {str_lower(n) : n \in AllNames(map)}

EmptyMap == [k \in {} |-> {}]

\* variant: a plain dict, one original name per loose key
build_loose_map_single(map, enableLoose, looseCaseInsensitive) ==
    IF enableLoose
    THEN [key \in {norm_loose(n, looseCaseInsensitive) : n \in AllNames(map)} |->
            {CHOOSE n \in AllNames(map) : norm_loose(n, looseCaseInsensitive) = key}]
    ELSE EmptyMap

build_loose_map(map, enableLoose, looseCaseInsensitive) ==
    IF enableLoose
    THEN [key \in {norm_loose(n, looseCaseInsensitive) : n \in AllNames(map)} |->
            {n \in AllNames(map) : norm_loose(n, looseCaseInsensitive) = key}]
    ELSE EmptyMap

strict_key(s, strictCaseSensitive) ==
    IF strictCaseSensitive THEN s ELSE str_lower(s)

\* variant: the scan stops at the first page that holds the name
strict_pages_first_only(s, map, strictCaseSensitive) ==
    LET all == {p \in DOMAIN map :
                    \/ InList(s, map[p])
                    \/ /\ ~strictCaseSensitive
                       /\ InList(str_lower(s), [k \in 1..Len(map[p]) |-> str_lower(map[p][k])])}
    IN  {p \in all : \A q \in all : p <= q}

\* the pages the strict scan adds for s
strict_pages(s, map, strictCaseSensitive) ==
    {p \in DOMAIN map :
        \/ InList(s, map[p])
        \/ /\ ~strictCaseSensitive
           /\ InList(str_lower(s), [k \in 1..Len(map[p]) |-> str_lower(map[p][k])])}

\* the pages the loose scan adds for the original names under one loose key
loose_pages(originals, map) ==
    {p \in DOMAIN map : \E o \in originals : InList(o, map[p])}

\* one iteration of the match loop: the counter it increments and the pages it adds
match_one(s, map, strictSet, looseMap, strictCaseSensitive, enableLoose, looseCaseInsensitive) ==
    LET key == strict_key(s, strictCaseSensitive)
        sp  == IF key \in strictSet THEN strict_pages(s, map, strictCaseSensitive) ELSE {}
        lk  == norm_loose(s, looseCaseInsensitive)
        lp  == IF enableLoose /\ lk \in DOMAIN looseMap
               THEN loose_pages(looseMap[lk], map) ELSE {}
    IN  IF sp # {}
        THEN [cls |-> "STRICT", pages |-> sp, loose_tried |-> FALSE]
        ELSE IF lp # {}
             THEN [cls |-> "LOOSE", pages |-> lp, loose_tried |-> TRUE]
             ELSE [cls |-> "NONE", pages |-> {}, loose_tried |-> enableLoose]

\* variant: no "continue" after a match, none_cnt is incremented every time
count_delta_no_continue(cls) ==
    [strict |-> IF cls = "STRICT" THEN 1 ELSE 0,
     loose  |-> IF cls = "LOOSE" THEN 1 ELSE 0,
     none   |-> 1]

\* the counters one iteration increments (strict_cnt += 1; continue / ... / none_cnt += 1)
count_delta(cls) ==
    [strict |-> IF cls = "STRICT" THEN 1 ELSE 0,
     loose  |-> IF cls = "LOOSE" THEN 1 ELSE 0,
     none   |-> IF cls \notin {"STRICT", "LOOSE"} THEN 1 ELSE 0]

\* variant: only the first keep rule is consulted
manual_pages_first_rule(map, hardcodedKeep) ==
    {p \in DOMAIN map : \E k \in 1..Len(map[p]) :
        hardcodedKeep # <<>> /\ str_strip(map[p][k]) = hardcodedKeep[1]}

\* the pages the hardcoded keep rules add
manual_pages(map, hardcodedKeep) ==
    {p \in DOMAIN map : \E k \in 1..Len(map[p]) : InList(str_strip(map[p][k]), hardcodedKeep)}

\* variant: the set is listed without sorting it ascending
RECURSIVE unsorted(_)
unsorted(S) ==
    IF S = {} THEN <<>>
    ELSE LET m == CHOOSE x \in S : \A y \in S : x >= y
         IN  <<m>> \o unsorted(S \ {m})

RECURSIVE sorted(_)
sorted(S) ==
    IF S = {} THEN <<>>
    ELSE LET m == CHOOSE x \in S : \A y \in S : x <= y
         IN  <<m>> \o sorted(S \ {m})

\* variant: the writer is called whatever the keep list holds
should_write_always(keptList) == TRUE

\* main: if kept_pages: ...
should_write(keptList) == keptList # <<>>

\* variant: the 1-based page number is used as the 0-based index
insert_index_one_based(p) == p

\* insert_pdf(src, from_page=p-1, to_page=p-1)
insert_index(p) == p - 1

\* write_pdf_pages: the document built from the kept pages
build_output(keptList) == [i \in 1..Len(keptList) |-> insert_index(keptList[i])]

(* ---------------------------- state ------------------------------------ *)
VARIABLES
    DROP_WORDS,              \* settings, fixed before the run
    STRICT_CASE_SENSITIVE,
    ENABLE_LOOSE_FALLBACK,
    LOOSE_CASE_INSENSITIVE,
    HARDCODED_KEEP,
    source_doc,              \* the two input documents
    target_doc,
    pc,                      \* position of main
    src_names,
    tgt_page_map,
    total_tgt_rows,
    tgt_strict_set,
    tgt_loose_map,
    kept_pages,              \* the set built by the match loop and the keep rules
    kept_list,               \* kept_pages after sorted()
    strict_cnt,
    loose_cnt,
    none_cnt,
    pos,                     \* number of source names the match loop has processed
    match_log,               \* per processed source name: counter incremented, pages added
    out_doc,                 \* from_page indices inserted into the output document
    writer_opened,
    out_saved,
    save_count,
    report,                  \* "none", "wrote" (line 175) or "no_pages" (line 177)
    err,                     \* the step that raised, or "none"
    exit_status              \* -1 while running, 0 on return of main, 1 on sys.exit(1)

cfgVars == <<DROP_WORDS, STRICT_CASE_SENSITIVE, ENABLE_LOOSE_FALLBACK,
             LOOSE_CASE_INSENSITIVE, HARDCODED_KEEP, source_doc, target_doc>>
loadVars == <<src_names, tgt_page_map, total_tgt_rows, tgt_strict_set, tgt_loose_map>>
matchVars == <<kept_pages, strict_cnt, loose_cnt, none_cnt, pos, match_log>>
outVars == <<out_doc, writer_opened, out_saved, save_count, report>>
vars == <<cfgVars, loadVars, matchVars, outVars, kept_list, pc, err, exit_status>>

Init ==
    /\ DROP_WORDS \in DropWordChoices
    /\ STRICT_CASE_SENSITIVE \in BOOLEAN
    /\ ENABLE_LOOSE_FALLBACK \in BOOLEAN
    \* norm_loose is called only under ENABLE_LOOSE_FALLBACK (lines 116 and 144): with
    \* the fallback disabled the flag is never read, and its shipped value stands for both
    /\ LOOSE_CASE_INSENSITIVE \in (IF ENABLE_LOOSE_FALLBACK THEN BOOLEAN ELSE {TRUE})
    /\ HARDCODED_KEEP \in ManualKeepChoices
    /\ source_doc \in SourceDocs
    /\ target_doc \in TargetDocs
    /\ pc = "load_source"
    /\ src_names = <<>>
    /\ tgt_page_map = <<>>
    /\ total_tgt_rows = 0
    /\ tgt_strict_set = {}
    /\ tgt_loose_map = EmptyMap
    /\ kept_pages = {}
    /\ kept_list = <<>>
    /\ strict_cnt = 0
    /\ loose_cnt = 0
    /\ none_cnt = 0
    /\ pos = 0
    /\ match_log = <<>>
    /\ out_doc = <<>>
    /\ writer_opened = FALSE
    /\ out_saved = FALSE
    /\ save_count = 0
    /\ report = "none"
    /\ err = "none"
    /\ exit_status = -1

\* an exception reaches the handler of __main__: print the error, sys.exit(1)
Raise(step) ==
    /\ pc' = "failed"
    /\ err' = step
    /\ exit_status' = 1

(* ---------------------------- main ------------------------------------- *)
LoadSource ==
    /\ pc = "load_source"
    /\ src_names' = SelectSeq(SourceNamesOf[source_doc], LAMBDA s : str_strip(s) # <<>>)
    /\ pc' = "load_target"
    /\ UNCHANGED <<cfgVars, tgt_page_map, total_tgt_rows, tgt_strict_set, tgt_loose_map,
                   matchVars, outVars, kept_list, err, exit_status>>

LoadSourceFail ==
    /\ pc = "load_source"
    /\ Raise("open_source")
    /\ UNCHANGED <<cfgVars, loadVars, matchVars, outVars, kept_list>>

LoadTarget ==
    /\ pc = "load_target"
    /\ tgt_page_map' = TargetTestsOf[<<target_doc, DROP_WORDS>>]
    /\ total_tgt_rows' = count_rows(tgt_page_map')
    /\ pc' = "build"
    /\ UNCHANGED <<cfgVars, src_names, tgt_strict_set, tgt_loose_map,
                   matchVars, outVars, kept_list, err, exit_status>>

LoadTargetFail ==
    /\ pc = "load_target"
    /\ Raise("open_target")
    /\ UNCHANGED <<cfgVars, loadVars, matchVars, outVars, kept_list>>

BuildLookups ==
    /\ pc = "build"
    /\ tgt_strict_set' = build_strict_set(tgt_page_map, STRICT_CASE_SENSITIVE)
    /\ tgt_loose_map' = build_loose_map(tgt_page_map, ENABLE_LOOSE_FALLBACK,
                                        LOOSE_CASE_INSENSITIVE)
    /\ kept_pages' = {}
    /\ strict_cnt' = 0
    /\ loose_cnt' = 0
    /\ none_cnt' = 0
    /\ pc' = "match"
    /\ UNCHANGED <<cfgVars, src_names, tgt_page_map, total_tgt_rows, pos, match_log,
                   outVars, kept_list, err, exit_status>>

MatchStep ==
    /\ pc = "match"
    /\ pos < Len(src_names)
    /\ LET r == match_one(src_names[pos + 1], tgt_page_map, tgt_strict_set, tgt_loose_map,
                          STRICT_CASE_SENSITIVE, ENABLE_LOOSE_FALLBACK,
                          LOOSE_CASE_INSENSITIVE)
       IN  /\ kept_pages' = kept_pages \cup r.pages
           /\ strict_cnt' = strict_cnt + count_delta(r.cls).strict
           /\ loose_cnt' = loose_cnt + count_delta(r.cls).loose
           /\ none_cnt' = none_cnt + count_delta(r.cls).none
           /\ match_log' = Append(match_log, r)
    /\ pos' = pos + 1
    /\ UNCHANGED <<cfgVars, loadVars, outVars, kept_list, pc, err, exit_status>>

ManualKeep ==
    /\ pc = "match"
    /\ pos = Len(src_names)
    /\ kept_pages' = kept_pages \cup manual_pages(tgt_page_map, HARDCODED_KEEP)
    /\ pc' = "sort"
    /\ UNCHANGED <<cfgVars, loadVars, strict_cnt, loose_cnt, none_cnt, pos, match_log,
                   outVars, kept_list, err, exit_status>>

SortKept ==
    /\ pc = "sort"
    /\ kept_list' = sorted(kept_pages)
    /\ pc' = "write"
    /\ UNCHANGED <<cfgVars, loadVars, matchVars, outVars, err, exit_status>>

\* write_pdf_pages returns normally; main prints "Wrote: ..."
WritePages ==
    /\ pc = "write"
    /\ should_write(kept_list)
    /\ IF kept_list = <<>>
       THEN UNCHANGED <<out_doc, writer_opened, out_saved, save_count>>
       ELSE /\ writer_opened' = TRUE
            /\ out_doc' = build_output(kept_list)
            /\ out_saved' = TRUE
            /\ save_count' = save_count + 1
    /\ report' = "wrote"
    /\ pc' = "summary"
    /\ UNCHANGED <<cfgVars, loadVars, matchVars, kept_list, err, exit_status>>

\* fitz.open(source_pdf) raises inside write_pdf_pages
WriteOpenFail ==
    /\ pc = "write"
    /\ should_write(kept_list)
    /\ kept_list # <<>>
    /\ Raise("open_writer")
    /\ UNCHANGED <<cfgVars, loadVars, matchVars, outVars, kept_list>>

\* out.save(out_pdf) raises
WriteSaveFail ==
    /\ pc = "write"
    /\ should_write(kept_list)
    /\ kept_list # <<>>
    /\ writer_opened' = TRUE
    /\ out_doc' = build_output(kept_list)
    /\ Raise("save")
    /\ UNCHANGED <<cfgVars, loadVars, matchVars, out_saved, save_count, report, kept_list>>

SkipWrite ==
    /\ pc = "write"
    /\ ~should_write(kept_list)
    /\ report' = "no_pages"
    /\ pc' = "summary"
    /\ UNCHANGED <<cfgVars, loadVars, matchVars, out_doc, writer_opened, out_saved,
                   save_count, kept_list, err, exit_status>>

\* the target document is opened again for the summary; main returns
Summary ==
    /\ pc = "summary"
    /\ pc' = "done"
    /\ exit_status' = 0
    /\ UNCHANGED <<cfgVars, loadVars, matchVars, outVars, kept_list, err>>

SummaryFail ==
    /\ pc = "summary"
    /\ Raise("open_summary")
    /\ UNCHANGED <<cfgVars, loadVars, matchVars, outVars, kept_list>>

Next ==
    \/ LoadSource
    \/ LoadSourceFail
    \/ LoadTarget
    \/ LoadTargetFail
    \/ BuildLookups
    \/ MatchStep
    \/ ManualKeep
    \/ SortKept
    \/ WritePages
    \/ WriteOpenFail
    \/ WriteSaveFail
    \/ SkipWrite
    \/ Summary
    \/ SummaryFail

Spec == Init /\ [][Next]_vars

TypeOK ==
    /\ pc \in {"load_source", "load_target", "build", "match", "sort", "write",
               "summary", "done", "failed"}
    /\ pos \in 0..Len(src_names)

(* ---------------------------- stated properties ------------------------ *)
\* the match loop and the keep rules are over
AfterManual == pc \in {"sort", "write", "summary", "done"}
                \/ (pc = "failed" /\ err \in {"open_writer", "save", "open_summary"})

\* the write step is over (write_pdf_pages returned, or the branch at line 177 ran)
AfterWrite == pc \in {"summary", "done"} \/ (pc = "failed" /\ err = "open_summary")

\* the entries of PageIndex: <<page, position on the page>>
Entries == UNION {{<<p, k>> : k \in 1..Len(tgt_page_map[p])} : p \in DOMAIN tgt_page_map}

EntryName(pk) == tgt_page_map[pk[1]][pk[2]]

\* equality of names under the configured strict case rule
StrictEq(n, s) ==
    IF STRICT_CASE_SENSITIVE THEN n = s ELSE str_lower(n) = str_lower(s)

PagesStrictEq(s) == {pk[1] : pk \in {e \in Entries : StrictEq(EntryName(e), s)}}

\* the loose key as the specification words it: underscores are spaces, every run of
\* whitespace is one space, the ends are trimmed, lowercase when configured
RECURSIVE CollapseSpaces(_, _, _)
CollapseSpaces(t, i, acc) ==
    IF i > Len(t) THEN acc
    ELSE IF t[i] = Space /\ (acc = <<>> \/ acc[Len(acc)] = Space)
         THEN CollapseSpaces(t, i + 1, acc)
         ELSE CollapseSpaces(t, i + 1, Append(acc, t[i]))

LooseKey(s) ==
    LET t == [i \in 1..Len(s) |-> IF s[i] = Underscore \/ s[i] \in Whitespace THEN Space ELSE s[i]]
        c == CollapseSpaces(t, 1, <<>>)
        u == IF c # <<>> /\ c[Len(c)] = Space THEN SubSeq(c, 1, Len(c) - 1) ELSE c
    IN  IF LOOSE_CASE_INSENSITIVE THEN str_lower(u) ELSE u

PagesLooseEq(s) == {pk[1] : pk \in {e \in Entries : LooseKey(EntryName(e)) = LooseKey(s)}}

\* C1: a processed source name is counted STRICT iff some PageIndex entry equals it
\* under the strict case rule; then exactly the pages holding such an entry are added
\* (all of them), the loose fallback is not attempted and the name is not LOOSE.
StrictMatchExact ==
    \A i \in 1..Len(match_log) :
        LET s == src_names[i]
            r == match_log[i]
            ps == PagesStrictEq(s)
        IN  /\ (r.cls = "STRICT") <=> (ps # {})
            /\ ps # {} =>
                   /\ r.pages = ps
                   /\ r.pages \subseteq kept_pages
                   /\ ~r.loose_tried
                   /\ r.cls # "LOOSE"

StrictFanOutReached ==
    \E i \in 1..Len(match_log) :
        /\ match_log[i].cls = "STRICT"
        /\ Cardinality(match_log[i].pages) = 2
        /\ ~STRICT_CASE_SENSITIVE
        /\ \E e \in Entries : EntryName(e) = SensorUpper

\* C2: a processed source name without a strict match is, with the loose fallback
\* enabled, counted LOOSE iff some PageIndex entry has its loose key, and then every page
\* holding an entry with that key is added; otherwise it is NONE and adds no page.
\* "Sensor_Calib" against "sensor calib" is LOOSE (lowercasing configured) and keeps the page.
LooseMatchExact ==
    \A i \in 1..Len(match_log) :
        LET s == src_names[i]
            r == match_log[i]
            ps == PagesStrictEq(s)
            pl == PagesLooseEq(s)
        IN  /\ ps = {} =>
                   IF ENABLE_LOOSE_FALLBACK
                   THEN /\ (r.cls = "LOOSE") <=> (pl # {})
                        /\ r.cls = "LOOSE" => (r.pages = pl /\ r.pages \subseteq kept_pages)
                        /\ r.cls # "LOOSE" => (r.cls = "NONE" /\ r.pages = {})
                   ELSE r.cls = "NONE" /\ r.pages = {}
            /\ ( /\ s = SensorUnderscore
                 /\ ENABLE_LOOSE_FALLBACK
                 /\ LOOSE_CASE_INSENSITIVE
                 /\ ps = {} )
               => \A e \in Entries :
                      EntryName(e) = SensorLower => (r.cls = "LOOSE" /\ e[1] \in kept_pages)

LooseFanOutReached ==
    \E i \in 1..Len(match_log) :
        /\ src_names[i] = SensorUnderscore
        /\ match_log[i].cls = "LOOSE"
        /\ Cardinality(match_log[i].pages) = 2
        /\ \E e \in Entries : EntryName(e) = SensorLower

\* C3: the three counters sum to the number of source names processed so far, and to
\* the number of source names once the match loop is over.
CountsSumToSources ==
    /\ strict_cnt + loose_cnt + none_cnt = pos
    /\ pos = Len(match_log)
    /\ AfterManual => strict_cnt + loose_cnt + none_cnt = Len(src_names)

DuplicateSourcesCounted ==
    /\ pc = "done"
    /\ Len(src_names) = 2
    /\ src_names[1] = src_names[2]
    /\ loose_cnt = 2

\* C4: the keep set handed to the page writer is strictly ascending, holds each page
\* once, and every page is within 1..targetPageCount.
KeepListAscendingInRange ==
    /\ kept_pages \subseteq 1..Len(target_doc)
    /\ \A i \in 1..Len(kept_list) : kept_list[i] \in 1..Len(target_doc)
    /\ \A i \in 1..(Len(kept_list) - 1) : kept_list[i] < kept_list[i + 1]
    /\ pc \in {"write", "summary", "done"} =>
           {kept_list[i] : i \in 1..Len(kept_list)} = kept_pages

PageKeptForSeveralReasons ==
    /\ pc = "write"
    /\ Len(kept_list) = 2
    /\ \E p \in manual_pages(tgt_page_map, HARDCODED_KEEP) :
          \E i \in 1..Len(match_log) : p \in match_log[i].pages
    /\ \E p \in kept_pages :
          Cardinality({i \in 1..Len(match_log) : p \in match_log[i].pages}) = 2

\* a name contains a drop-word as a case-insensitive substring
ContainsDropWord(name) ==
    \E k \in 1..Len(DROP_WORDS) : str_contains(str_upper(name), str_upper(DROP_WORDS[k]))

\* the "Device Test" rows of one target page, as captured
CapturesOf ==
    [h \in DOMAIN TargetPageTexts |->
        TGT_DEVTEST_RE_finditer(norm_layout(TargetPageTexts[h]))] @@ <<>>

TargetCaptures(p) == CapturesOf[target_doc[p]]

\* the occurrences of the target document: <<page, position on the page>>
Occurrences ==
    UNION {{<<p, k>> : k \in 1..Len(TargetCaptures(p))} : p \in 1..Len(target_doc)}

OccName(pk) == clean_name(TargetCaptures(pk[1])[pk[2]])

TargetLoaded == pc \notin {"load_source", "load_target"} /\ err \notin {"open_source", "open_target"}

\* C5: a target occurrence whose name contains a drop-word, in any letter case, is not
\* in PageIndex, is not counted in the target-entry total, and a source name that only
\* such occurrences could match resolves to NONE.
DropWordsExcluded ==
    TargetLoaded =>
        /\ \A e \in Entries : ~ContainsDropWord(EntryName(e))
        /\ total_tgt_rows = Cardinality({o \in Occurrences :
                                OccName(o) # <<>> /\ ~ContainsDropWord(OccName(o))})
        /\ \A i \in 1..Len(match_log) :
               ( /\ ContainsDropWord(src_names[i])
                 /\ \A o \in Occurrences :
                        (StrictEq(OccName(o), src_names[i])
                         \/ LooseKey(OccName(o)) = LooseKey(src_names[i]))
                        => ContainsDropWord(OccName(o)) )
               => match_log[i].cls = "NONE"

\* C6: the keep rules force the page of every PageIndex entry whose trimmed name is
\* listed, whatever the match outcomes; the step only adds pages and leaves the three
\* counters alone, and the forced pages are in the sorted keep list.
ManualKeepForcesPages ==
    [][ /\ (pc = "match" /\ pc' = "sort") =>
              /\ kept_pages \subseteq kept_pages'
              /\ <<strict_cnt, loose_cnt, none_cnt>>' = <<strict_cnt, loose_cnt, none_cnt>>
              /\ \A e \in Entries :
                     InList(str_strip(EntryName(e)), HARDCODED_KEEP) => e[1] \in kept_pages'
        /\ (pc = "sort" /\ pc' = "write") =>
              \A e \in Entries :
                  InList(str_strip(EntryName(e)), HARDCODED_KEEP)
                  => InList(e[1], kept_list')
      ]_vars

ManualOnlyPageKept ==
    /\ pc = "done"
    /\ Len(src_names) >= 1
    /\ none_cnt = Len(src_names)
    /\ \E e \in Entries : EntryName(e) = LegacyDiagnostic /\ InList(e[1], kept_list)
    /\ out_saved

\* C7: a target occurrence whose name contains a drop-word and equals an entry of the
\* keep rules has its page forced into the keep set.
ManualKeepBypassesDropWords ==
    AfterManual =>
        \A o \in Occurrences :
            (ContainsDropWord(OccName(o)) /\ InList(OccName(o), HARDCODED_KEEP))
            => o[1] \in kept_pages

\* C8 as stated: with zero source names extracted the keep set is empty, no output
\* document is produced and the run reports "no pages".
ZeroSourcesNoOutput ==
    (pc = "done" /\ src_names = <<>>) =>
        /\ kept_pages = {}
        /\ kept_list = <<>>
        /\ ~out_saved
        /\ report = "no_pages"

NoManualMatch ==
    \A e \in Entries : ~InList(str_strip(EntryName(e)), HARDCODED_KEEP)

\* C8 amended: with zero source names extracted and no PageIndex entry listed in the
\* keep rules, the keep set is empty and no output document is produced; the run then
\* fails only on opening the target document, and otherwise completes reporting "no pages".
ZeroSourcesNoManualNoOutput ==
    (TargetLoaded /\ src_names = <<>> /\ NoManualMatch) =>
        /\ kept_pages = {}
        /\ kept_list = <<>>
        /\ ~writer_opened
        /\ ~out_saved
        /\ AfterWrite => report = "no_pages"
        /\ pc = "failed" => err = "open_summary"
        /\ pc = "done" => exit_status = 0

ZeroSourcesCompleted ==
    /\ pc = "done"
    /\ src_names = <<>>
    /\ Len(source_doc) >= 1
    /\ Entries # {}
    /\ HARDCODED_KEEP # <<>>
    /\ NoManualMatch
    /\ report = "no_pages"
    /\ exit_status = 0

\* C9: the output is saved only with a non-empty keep list, only after matching and
\* the keep rules, at most once, and holds exactly the kept pages in ascending order
\* (page p from index p-1); with an empty keep list the writer is never opened and
\* "no pages" is reported; once the write step is over, saved <=> keep list non-empty.
OutputIffKeepNonEmpty ==
    /\ save_count <= 1
    /\ out_saved <=> save_count = 1
    /\ writer_opened => (AfterManual /\ kept_list # <<>>)
    /\ out_saved =>
           /\ AfterWrite
           /\ writer_opened
           /\ Len(out_doc) = Len(kept_list)
           /\ \A i \in 1..Len(out_doc) :
                  out_doc[i] = kept_list[i] - 1 /\ out_doc[i] + 1 \in kept_pages
           /\ \A i \in 1..(Len(out_doc) - 1) : out_doc[i] < out_doc[i + 1]
           /\ report = "wrote"
    /\ AfterWrite =>
           /\ out_saved <=> kept_list # <<>>
           /\ kept_list = <<>> => (~writer_opened /\ report = "no_pages")

TwoPagesWritten ==
    /\ pc = "done"
    /\ out_saved
    /\ out_doc = <<0, 1>>

\* C10: a run that fails exits with status 1 and leaves no output document.
FailedRunLeavesNoOutput ==
    /\ err # "none" => (pc = "failed" /\ exit_status = 1)
    /\ pc = "failed" => ~out_saved

====
